---- MODULE Spec2Model ----
(***************************************************************************)
(* Model of the Phase 3 profile generator (3_calculate_alpha.py): the node *)
(* tier classifier load_node_specs, the roofline estimator                 *)
(* calculate_alpha_sigmoid, the relative-cost computation                  *)
(* estimate_p_comp_from_oi and the main() that writes profile.yaml; and of *)
(* the time-ratio estimator calculate_alpha of 3_calculate_alpha_new.py.   *)
(*                                                                         *)
(* Numbers.  Python floats are modelled as exact rationals [n, d] in       *)
(* lowest terms.  YAML/JSON values are tagged: a number, null (None) or an *)
(* absent key.  round(x, 3) is modelled by Round3s, the set of results the *)
(* float rounding can give.                                                *)
(***************************************************************************)
EXTENDS Integers, Sequences, FiniteSets, TLC

VARIABLES
    node_files,     \* node_*.yaml on disk: hostname -> record
    pc,             \* position of main() of 3_calculate_alpha.py
    node_types,     \* load_node_specs: hostname -> DEVICE/EDGE/CLOUD
    node_specs,     \* averaged_specs: tier -> averaged record
    tool_oi,        \* load_tool_oi: tool name -> OI
    tool_idx,       \* index of the next tool of get_all_tools()
    alphas,         \* main: per-tier alphas of the tool processed last
    tool_profiles,  \* main: tool name -> profile
    profile_file,   \* profile.yaml: NoFile or [tools, node_specs]
    pf_oi,          \* estimate_p_comp_from_oi called directly: argument oi
    pf_specs,       \* ... argument node_specs
    pf_result,      \* ... its outcome
    pf_pc,          \* ... "call" before, "done" after
    sg_oi,          \* calculate_alpha_sigmoid called directly: argument oi
    sg_ridge,       \* ... argument ridge_point
    sg_logs,        \* ... the arguments it passed to math.log
    sg_result,      \* ... its return value
    sg_pc,          \* ... "call" before, "done" after
    tr_node,        \* 3_calculate_alpha_new.py: nodes.get(hostname, {})
    tr_data,        \* ... exec_data[tool_name] of that host
    tr_alpha,       \* ... outcome of calculate_alpha
    tr_rounded,     \* ... alphas[hostname]
    tr_pc,          \* ... "measure" before, "done" or the exception after
    rn_exports,     \* 3_calculate_alpha_new.py run: names of utils.tool_definitions
    rn_node_files,  \* ... node_*.yaml on disk: hostname -> record
    rn_exec_files,  \* ... native_tool_exec_time_<hostname>.json: hostname -> tools
    rn_pc,          \* ... position of the script
    rn_nodes,       \* ... load_node_specs: hostname -> record
    rn_exec,        \* ... load_exec_times: hostname key -> tools
    rn_tool_idx,    \* ... generate_profile: index of the next tool
    rn_alphas,      \* ... alphas of the tool processed last
    rn_profiles,    \* ... tool_profiles
    rn_notes,       \* ... tools reported with "No measurements"
    rn_report,      \* ... profile_native.yaml
    ms_runner,      \* measurement of one tool: native, wasm or cloud runner
    ms_run,         \* ... number of runs of the loop done
    ms_exec_times,  \* ... exec_times
    ms_pc,          \* ... "loop", then "returned"
    ms_record,      \* ... the record emitted, or null for none
    es_TOOLS,       \* the estimator used again and again: the TOOLS table of utils.tool_definitions
    es_listed,      \* ... the list get_all_tools() returned, as references into TOOLS
    es_nodes,       \* ... the loaded node records
    es_node_specs,  \* ... the tier specs
    es_tool_oi,     \* ... the tool OI table
    es_history,     \* ... the computations done: tool name and result
    cl_files,       \* load_node_specs called on its own: node_*.yaml on disk
    cl_order,       \* ... the order glob.glob returned the files in
    cl_result,      \* ... its outcome
    cl_pc,          \* ... "call" before, "done" after
    nf_files,       \* the node files over the runs of the benchmarks: hostname -> node_<hostname>.yaml
    nf_last,        \* ... the program run last, its host and its measurements
    nf_loaded,      \* ... what load_node_specs of 3_calculate_alpha.py returned, once run
    hs_pc,          \* measure_server_tools of 2c_measure_http_tools.py: position
    hs_process,     \* ... the wasmtime serve process: none, running or exited
    hs_started,     \* ... start_wasmtime_server returned a running process
    hs_stop_called, \* ... stop_wasmtime_server was called
    hs_how,         \* ... what stop_wasmtime_server did to end the process
    hs_tool,        \* ... index of the tool of the loop
    hs_run,         \* ... runs done for that tool
    hs_exec_times,  \* ... len(exec_times) of that tool
    hs_results,     \* ... len(results)
    hs_path         \* ... the way the function left the try block

vars == <<node_files, pc, node_types, node_specs, tool_oi,
          tool_idx, alphas, tool_profiles, profile_file,
          pf_oi, pf_specs, pf_result, pf_pc,
          sg_oi, sg_ridge, sg_logs, sg_result, sg_pc,
          tr_node, tr_data, tr_alpha, tr_rounded, tr_pc,
          rn_exports, rn_node_files, rn_exec_files, rn_pc, rn_nodes, rn_exec,
          rn_tool_idx, rn_alphas, rn_profiles, rn_notes, rn_report,
          ms_runner, ms_run, ms_exec_times, ms_pc, ms_record,
          es_TOOLS, es_listed, es_nodes, es_node_specs, es_tool_oi, es_history,
          cl_files, cl_order, cl_result, cl_pc,
          nf_files, nf_last, nf_loaded,
          hs_pc, hs_process, hs_started, hs_stop_called, hs_how, hs_tool, hs_run, hs_exec_times, hs_results, hs_path>>

mainVars == <<node_files, pc, node_types, node_specs, tool_oi,
              tool_idx, alphas, tool_profiles, profile_file>>

pfVars == <<pf_oi, pf_specs, pf_result, pf_pc>>

sgVars == <<sg_oi, sg_ridge, sg_logs, sg_result, sg_pc>>

trVars == <<tr_node, tr_data, tr_alpha, tr_rounded, tr_pc>>

rnVars == <<rn_exports, rn_node_files, rn_exec_files, rn_pc, rn_nodes, rn_exec,
           rn_tool_idx, rn_alphas, rn_profiles, rn_notes, rn_report>>

msVars == <<ms_runner, ms_run, ms_exec_times, ms_pc, ms_record>>

esVars == <<es_TOOLS, es_listed, es_nodes, es_node_specs, es_tool_oi, es_history>>

clVars == <<cl_files, cl_order, cl_result, cl_pc>>

nfVars == <<nf_files, nf_last, nf_loaded>>

hsVars == <<hs_pc, hs_process, hs_started, hs_stop_called, hs_how, hs_tool, hs_run, hs_exec_times, hs_results, hs_path>>

\* what each part of the model leaves alone
notMainVars == <<pfVars, sgVars, trVars, rnVars, msVars, esVars, clVars, nfVars, hsVars>>
notPfVars == <<mainVars, sgVars, trVars, rnVars, msVars, esVars, clVars, nfVars, hsVars>>
notSgVars == <<mainVars, pfVars, trVars, rnVars, msVars, esVars, clVars, nfVars, hsVars>>
notTrVars == <<mainVars, pfVars, sgVars, rnVars, msVars, esVars, clVars, nfVars, hsVars>>
notRnVars == <<mainVars, pfVars, sgVars, trVars, msVars, esVars, clVars, nfVars, hsVars>>
notMsVars == <<mainVars, pfVars, sgVars, trVars, rnVars, esVars, clVars, nfVars, hsVars>>
notEsVars == <<mainVars, pfVars, sgVars, trVars, rnVars, msVars, clVars, nfVars, hsVars>>
notClVars == <<mainVars, pfVars, sgVars, trVars, rnVars, msVars, esVars, nfVars, hsVars>>
notNfVars == <<mainVars, pfVars, sgVars, trVars, rnVars, msVars, esVars, clVars, hsVars>>
notHsVars == <<mainVars, pfVars, sgVars, trVars, rnVars, msVars, esVars, clVars, nfVars>>

(***************************************************************************)
(* Bounds of the model.                                                    *)
(***************************************************************************)
MaxNodes == 4

(***************************************************************************)
(* Values: numbers (rationals), null, absent key.                          *)
(***************************************************************************)
Null == [k |-> "null"]
Absent == [k |-> "absent"]
NoFile == [k |-> "nofile"]

RECURSIVE GCD(_, _)
GCD(a, b) == IF b = 0 THEN a ELSE GCD(b, a % b)

Abs(a) == IF a < 0 THEN -a ELSE a

\* the rational n/d (d # 0) in lowest terms with a positive denominator
Num(n, d) ==
    LET g == GCD(Abs(n), Abs(d))
        s == IF d < 0 THEN -1 ELSE 1
    IN  [k |-> "num", n |-> s * (n \div g), d |-> s * (d \div g)]

Int2Num(i) == [k |-> "num", n |-> i, d |-> 1]
Zero == Int2Num(0)
One == Int2Num(1)
Half == Num(1, 2)

IsNum(x) == x.k = "num"

RAdd(a, b) ==
    LET g == GCD(a.d, b.d)
    IN  Num(a.n * (b.d \div g) + b.n * (a.d \div g), (a.d \div g) * b.d)

RNeg(a) == [k |-> "num", n |-> -a.n, d |-> a.d]
RSub(a, b) == RAdd(a, RNeg(b))

RMul(a, b) ==
    LET g1 == GCD(Abs(a.n), b.d)
        g2 == GCD(Abs(b.n), a.d)
        h1 == IF g1 = 0 THEN 1 ELSE g1
        h2 == IF g2 = 0 THEN 1 ELSE g2
    IN  Num((a.n \div h1) * (b.n \div h2), (a.d \div h2) * (b.d \div h1))

\* a / b for b # 0
RDiv(a, b) == RMul(a, Num(b.d, b.n))

RLess(a, b) == RSub(a, b).n < 0
RLeq(a, b) == RSub(a, b).n <= 0
RMax(a, b) == IF RLess(a, b) THEN b ELSE a

\* Python truthiness of a YAML value: None and 0.0 are false
Truthy(x) == IsNum(x) /\ x.n # 0

(***************************************************************************)
(* Node records (node_<hostname>.yaml).                                    *)
(***************************************************************************)
\* outcomes of benchmark_cpu() and benchmark_memory(): None when the
\* measurement failed, else the measured value
PeakVals == <<Int2Num(1), Int2Num(2), Int2Num(4)>>
MemVals == <<Int2Num(1), Int2Num(2)>>
\* the values of the end-to-end scenario of the specification
ScenarioPeakVals == <<Int2Num(10), Int2Num(100)>>
ScenarioMemVals == <<Int2Num(100)>>

\* variant: the ridge point as bandwidth over rate
benchmark_node_record_inverted(peak_flops, memory_bw) ==
    [peak_flops |-> peak_flops,
     memory_bw |-> memory_bw,
     ridge_point |-> IF Truthy(peak_flops) /\ Truthy(memory_bw)
                     THEN RDiv(memory_bw, peak_flops)
                     ELSE Null]

\* the record 1_benchmark_node.py writes from its two measurements
benchmark_node_record(peak_flops, memory_bw) ==
    [peak_flops |-> peak_flops,
     memory_bw |-> memory_bw,
     ridge_point |-> IF Truthy(peak_flops) /\ Truthy(memory_bw)
                     THEN RDiv(peak_flops, memory_bw)
                     ELSE Null]

\* a file created by 0_benchmark_cpu.py alone: none of the three keys
cpu_only_record ==
    [peak_flops |-> Absent, memory_bw |-> Absent, ridge_point |-> Absent]

\* the records the two benchmark programs can leave on disk, listed: the
\* file of 0_benchmark_cpu.py, every pair of successful measurements, and
\* a failed CPU measurement, a failed memory measurement and both failed
RecordList(peaks, mems) ==
    <<cpu_only_record>> \o
    [i \in 1..(Len(peaks) * Len(mems)) |->
        benchmark_node_record(peaks[((i - 1) \div Len(mems)) + 1],
                              mems[((i - 1) % Len(mems)) + 1])] \o
    <<benchmark_node_record(Null, mems[1]),
      benchmark_node_record(peaks[1], Null),
      benchmark_node_record(Null, Null)>>

\* dict.get(key, 0): the default applies to an absent key only
Get0(v) == IF v = Absent THEN Zero ELSE v

(***************************************************************************)
(* load_node_specs                                                         *)
(***************************************************************************)
RECURSIVE InsertStable(_, _, _)
InsertStable(s, h, key) ==
    IF s = <<>> THEN <<h>>
    ELSE IF RLess(key[h], key[Head(s)]) THEN <<h>> \o s
    ELSE <<Head(s)>> \o InsertStable(Tail(s), h, key)

RECURSIVE StableSort(_, _)
\* sorted(items, key=...): ascending and stable
StableSort(seq, key) ==
    IF seq = <<>> THEN <<>>
    ELSE InsertStable(StableSort(SubSeq(seq, 1, Len(seq) - 1), key),
                      seq[Len(seq)], key)

RECURSIVE Reverse(_)
Reverse(seq) ==
    IF seq = <<>> THEN <<>> ELSE Reverse(Tail(seq)) \o <<Head(seq)>>

\* variant: sorted with reverse=True
sorted_nodes_descending(order, key) == Reverse(StableSort(order, key))

\* variant: equal keys come out in the reverse of the load order
sorted_nodes_ties_reversed(order, key) == StableSort(Reverse(order), key)

\* line 155
sorted_nodes(order, key) == StableSort(order, key)

\* variant: with three or more nodes the second slowest is taken as CLOUD
classify_second_is_cloud(sorted) ==
    LET n == Len(sorted)
    IN  [h \in {sorted[i] : i \in 1..n} |->
            IF n >= 3
            THEN IF h = sorted[1] THEN "DEVICE"
                 ELSE IF h = sorted[2] THEN "CLOUD"
                 ELSE "EDGE"
            ELSE IF n = 2
            THEN IF h = sorted[1] THEN "DEVICE" ELSE "EDGE"
            ELSE "DEVICE"]

\* variant: the last of two nodes is taken as the fastest
classify_from_two(sorted) ==
    LET n == Len(sorted)
    IN  [h \in {sorted[i] : i \in 1..n} |->
            IF n >= 2
            THEN IF h = sorted[1] THEN "DEVICE"
                 ELSE IF h = sorted[n] THEN "CLOUD"
                 ELSE "EDGE"
            ELSE "DEVICE"]

\* lines 157-166: hostname -> node type
classify(sorted) ==
    LET n == Len(sorted)
    IN  [h \in {sorted[i] : i \in 1..n} |->
            IF n >= 3
            THEN IF h = sorted[1] THEN "DEVICE"
                 ELSE IF h = sorted[n] THEN "CLOUD"
                 ELSE "EDGE"
            ELSE IF n = 2
            THEN IF h = sorted[1] THEN "DEVICE" ELSE "EDGE"
            ELSE "DEVICE"]

RECURSIVE RSum(_)
RSum(seq) == IF seq = <<>> THEN Zero ELSE RAdd(Head(seq), RSum(Tail(seq)))

RECURSIVE SetToSeq(_)
SetToSeq(S) ==
    IF S = {} THEN <<>>
    ELSE LET x == CHOOSE y \in S : TRUE IN <<x>> \o SetToSeq(S \ {x})

\* variant: the ridge point recomputed from the summed rate and bandwidth
average_ratio(specs_list, field) ==
    LET sum(f) == RSum([i \in 1..Len(specs_list) |-> Get0(specs_list[i][f])])
    IN  IF field = "ridge_point"
        THEN IF sum("memory_bw") = Zero THEN Zero
             ELSE RDiv(sum("peak_flops"), sum("memory_bw"))
        ELSE RDiv(sum(field), Int2Num(Len(specs_list)))

\* lines 187-189: one averaged field of one tier
average(specs_list, field) ==
    RDiv(RSum([i \in 1..Len(specs_list) |-> Get0(specs_list[i][field])]),
         Int2Num(Len(specs_list)))

\* lines 176-190
averaged_specs(files, types) ==
    [t \in {types[h] : h \in DOMAIN types} |->
        LET specs_list ==
                LET hs == SetToSeq({h \in DOMAIN types : types[h] = t})
                IN  [i \in 1..Len(hs) |-> files[hs[i]]]
        IN  [peak_flops |-> average(specs_list, "peak_flops"),
             memory_bw |-> average(specs_list, "memory_bw"),
             ridge_point |-> average(specs_list, "ridge_point")]]

HasNull(rec) ==
    \/ rec.peak_flops = Null
    \/ rec.memory_bw = Null
    \/ rec.ridge_point = Null

\* variant: without the test of lines 135-139
load_node_specs_unchecked(files, order) ==
    LET key == [h \in DOMAIN files |-> Get0(files[h].peak_flops)]
    IN  IF Len(order) >= 2 /\ \E h \in DOMAIN files : key[h] = Null
        THEN [kind |-> "raise", error |-> "TypeError"]
        ELSE IF \E h \in DOMAIN files : HasNull(files[h])
        THEN [kind |-> "raise", error |-> "TypeError"]
        ELSE LET types == classify(sorted_nodes(order, key))
             IN  [kind |-> "ok",
                  averaged_specs |-> averaged_specs(files, types),
                  nodes |-> order,
                  node_types |-> types]

\* load_node_specs with glob.glob returning the files in `order`
load_node_specs(files, order) ==
    IF order = <<>>
    THEN [kind |-> "none"]
    ELSE
    LET key == [h \in DOMAIN files |-> Get0(files[h].peak_flops)]
    IN  IF Len(order) >= 2 /\ \E h \in DOMAIN files : key[h] = Null
        THEN \* line 155: None < float
             [kind |-> "raise", error |-> "TypeError"]
        ELSE IF \E h \in DOMAIN files : HasNull(files[h])
        THEN \* lines 171-174 format None with .1f; lines 187-189 sum None
             [kind |-> "raise", error |-> "TypeError"]
        ELSE LET types == classify(sorted_nodes(order, key))
             IN  [kind |-> "ok",
                  averaged_specs |-> averaged_specs(files, types),
                  nodes |-> order,
                  node_types |-> types]

RECURSIVE Perms(_)
\* the orders in which glob.glob can return the files S
Perms(S) ==
    IF S = {} THEN {<<>>}
    ELSE UNION {{<<x>> \o q : q \in Perms(S \ {x})} : x \in S}

(***************************************************************************)
(* calculate_alpha_sigmoid and estimate_p_comp_from_oi                     *)
(***************************************************************************)
\* 1e-6 of lines 49-50
Floor == Num(1, 1000000)

\* 1 / (1 + exp(-k (ln oi - ln ridge))) with the default k = 2.0, which is
\* the rational oi^2 / (oi^2 + ridge^2) for positive oi and ridge
\* variant: the two logarithms subtracted the other way round
sigmoid_k2_inverted(oi, ridge) ==
    LET q == RDiv(ridge, oi)
        q2 == RMul(q, q)
    IN  RDiv(q2, RAdd(q2, One))

\* (= q^2 / (q^2 + 1) with q = oi / ridge)
sigmoid_k2(oi, ridge) ==
    LET q == RDiv(oi, ridge)
        q2 == RMul(q, q)
    IN  RDiv(q2, RAdd(q2, One))

\* lines 45-46: the inputs for which the function returns before line 49
returns_default(oi, ridge_point) ==
    oi = Null \/ ridge_point = Null \/ ridge_point = Zero

\* a plausible slip: oi is floored at 0 instead of 1e-6
log_arguments_floor_zero(oi, ridge_point) ==
    IF returns_default(oi, ridge_point) THEN <<>>
    ELSE <<RMax(oi, Zero), RMax(ridge_point, Floor)>>

\* variant: ridge_point floored at 2e-6 instead of 1e-6
log_arguments_ridge_floor(oi, ridge_point) ==
    IF returns_default(oi, ridge_point) THEN <<>>
    ELSE <<RMax(oi, Floor), RMax(ridge_point, Num(1, 500000))>>

\* lines 49-53: the arguments of the two math.log calls (none when the
\* function returns at line 46)
log_arguments(oi, ridge_point) ==
    IF returns_default(oi, ridge_point) THEN <<>>
    ELSE <<RMax(oi, Floor), RMax(ridge_point, Floor)>>

\* variant: `if not oi or not ridge_point` at line 45
calculate_alpha_sigmoid_falsy(oi, ridge_point) ==
    IF oi = Null \/ oi = Zero \/ ridge_point = Null \/ ridge_point = Zero
    THEN Half
    ELSE sigmoid_k2(RMax(oi, Floor), RMax(ridge_point, Floor))

calculate_alpha_sigmoid(oi, ridge_point) ==
    IF returns_default(oi, ridge_point)
    THEN Half
    ELSE LET a == log_arguments(oi, ridge_point)
         IN  sigmoid_k2(a[1], a[2])

Tiers == <<"DEVICE", "EDGE", "CLOUD">>
TierSet == {Tiers[i] : i \in 1..Len(Tiers)}

\* lines 99-102: the tiers the loop does not skip
costed_tiers(specs) == {t \in DOMAIN specs : specs[t].ridge_point # Zero}

\* lines 104-112 for one tier (both divisors non-zero)
exec_time(oi, specs) ==
    LET alpha == calculate_alpha_sigmoid(oi, specs.ridge_point)
        cpu_contrib == RDiv(alpha, specs.peak_flops)
        mem_contrib == RDiv(RSub(One, alpha), specs.memory_bw)
    IN  RAdd(cpu_contrib, mem_contrib)

RMin(a, b) == IF RLess(b, a) THEN b ELSE a

RECURSIVE MinOf(_)
MinOf(seq) ==
    IF Len(seq) = 1 THEN seq[1] ELSE RMin(Head(seq), MinOf(Tail(seq)))

RECURSIVE MaxOf(_)
MaxOf(seq) ==
    IF Len(seq) = 1 THEN seq[1] ELSE RMax(Head(seq), MaxOf(Tail(seq)))

\* lines 114-115
default_p_comp == [t \in TierSet |->
    IF t = "DEVICE" THEN One ELSE IF t = "EDGE" THEN Half ELSE Zero]

\* variant: scaled by the maximum instead of the range
normalize_by_max(exec_times) ==
    LET ts == SetToSeq(DOMAIN exec_times)
        vals == [i \in 1..Len(ts) |-> exec_times[ts[i]]]
        min_time == MinOf(vals)
        max_time == MaxOf(vals)
    IN  IF max_time = min_time
        THEN [t \in DOMAIN exec_times |-> Half]
        ELSE [t \in DOMAIN exec_times |->
                RDiv(RSub(exec_times[t], min_time), max_time)]

\* lines 117-128
normalize(exec_times) ==
    LET ts == SetToSeq(DOMAIN exec_times)
        vals == [i \in 1..Len(ts) |-> exec_times[ts[i]]]
        min_time == MinOf(vals)
        max_time == MaxOf(vals)
    IN  IF max_time = min_time
        THEN [t \in DOMAIN exec_times |-> Half]
        ELSE [t \in DOMAIN exec_times |->
                RDiv(RSub(exec_times[t], min_time),
                     RSub(max_time, min_time))]

estimate_p_comp_from_oi(oi, specs) ==
    LET ts == costed_tiers(specs)
    IN  IF \E t \in ts : specs[t].peak_flops = Zero \/ specs[t].memory_bw = Zero
        THEN \* lines 108-109: float division by zero
             [kind |-> "raise", error |-> "ZeroDivisionError"]
        ELSE IF ts = {}
        THEN [kind |-> "ok", p_comp |-> default_p_comp]
        ELSE [kind |-> "ok",
              p_comp |-> normalize([t \in ts |-> exec_time(oi, specs[t])])]

(***************************************************************************)
(* round(x, ndigits).  The exact value is rounded to the nearest multiple  *)
(* of 1/scale; at an exact decimal tie the float's binary representation   *)
(* decides, so both neighbours are possible results.                       *)
(***************************************************************************)
Rounds(x, scale) ==
    LET q == (x.n * scale) \div x.d
        rem == (x.n * scale) % x.d
    IN  IF 2 * rem < x.d THEN {Num(q, scale)}
        ELSE IF 2 * rem > x.d THEN {Num(q + 1, scale)}
        ELSE {Num(q, scale), Num(q + 1, scale)}

Round3s(x) == Rounds(x, 1000)
Round4s(x) == Rounds(x, 10000)

(***************************************************************************)
(* utils/tool_definitions.py and the tool OI file                          *)
(***************************************************************************)
\* an excerpt of the TOOLS table: server -> tools
TOOLS == <<[server |-> "filesystem", tools |-> <<"read_file">>],
           [server |-> "fetch", tools |-> <<"fetch">>]>>

RECURSIVE flatten(_)
flatten(table) ==
    IF table = <<>> THEN <<>>
    ELSE [i \in 1..Len(Head(table).tools) |->
            [name |-> Head(table).tools[i], server |-> Head(table).server]]
         \o flatten(Tail(table))

\* variant: only the tools of the first server
get_all_tools_first_server == flatten(<<Head(TOOLS)>>)

get_all_tools == flatten(TOOLS)

ToolNames == {get_all_tools[i].name : i \in 1..Len(get_all_tools)}

determine_data_locality(server_name) ==
    CASE server_name \in {"filesystem", "image_resize", "log_parser"} -> "local_data"
      [] server_name \in {"data_aggregate", "sequentialthinking"} -> "local_compute"
      [] server_name = "git" -> "version_control"
      [] server_name \in {"fetch", "summarize"} -> "network"
      [] server_name = "time" -> "local_utility"
      [] OTHER -> "unknown"

\* operational_intensity values of the hand-written OI file
OIVals == {One}
\* line 333: the default of a tool without an entry
DefaultOI == Half

\* tool_oi_measurements.json: missing, or tool name -> OI for some tools
OIFiles ==
    {NoFile} \cup UNION {[S -> OIVals] : S \in SUBSET ToolNames}

(***************************************************************************)
(* main() of 3_calculate_alpha.py                                          *)
(***************************************************************************)
EmptyFn == [x \in {} |-> Null]

\* the node files of a run: up to MaxNodes hosts 1..n.  Hostnames carry no
\* meaning and glob.glob returns the files in any order, so the records are
\* listed here in the order of `recs` and LoadNodeSpecs picks the load order.
NodeFileSets(recs) ==
    UNION {
        {[h \in 1..n |-> recs[f[h]]] :
            f \in {g \in [1..n -> 1..Len(recs)] :
                     \A i, j \in 1..n : i <= j => g[i] <= g[j]}}
        : n \in 0..MaxNodes}

InitMain(recs) ==
    /\ node_files \in NodeFileSets(recs)
    /\ pc = "load_node_specs"
    /\ node_types = EmptyFn
    /\ node_specs = EmptyFn
    /\ tool_oi = EmptyFn
    /\ tool_idx = 0
    /\ alphas = EmptyFn
    /\ tool_profiles = EmptyFn
    /\ profile_file = NoFile

PfIdle ==
    /\ pf_oi = Null
    /\ pf_specs = EmptyFn
    /\ pf_result = Null
    /\ pf_pc = "idle"

SgIdle ==
    /\ sg_oi = Null
    /\ sg_ridge = Null
    /\ sg_logs = <<>>
    /\ sg_result = Null
    /\ sg_pc = "idle"

TrIdle ==
    /\ tr_node = EmptyFn
    /\ tr_data = EmptyFn
    /\ tr_alpha = Null
    /\ tr_rounded = Null
    /\ tr_pc = "idle"

RnIdle ==
    /\ rn_exports = {}
    /\ rn_node_files = EmptyFn
    /\ rn_exec_files = EmptyFn
    /\ rn_pc = "idle"
    /\ rn_nodes = EmptyFn
    /\ rn_exec = EmptyFn
    /\ rn_tool_idx = 0
    /\ rn_alphas = EmptyFn
    /\ rn_profiles = EmptyFn
    /\ rn_notes = {}
    /\ rn_report = NoFile

MsIdle ==
    /\ ms_runner = "none"
    /\ ms_run = 0
    /\ ms_exec_times = <<>>
    /\ ms_pc = "idle"
    /\ ms_record = Null

EsIdle ==
    /\ es_TOOLS = <<>>
    /\ es_listed = <<>>
    /\ es_nodes = EmptyFn
    /\ es_node_specs = EmptyFn
    /\ es_tool_oi = EmptyFn
    /\ es_history = <<>>

ClIdle ==
    /\ cl_files = EmptyFn
    /\ cl_order = <<>>
    /\ cl_result = Null
    /\ cl_pc = "idle"

NfIdle ==
    /\ nf_files = EmptyFn
    /\ nf_last = [op |-> "none"]
    /\ nf_loaded = Null

HsIdle ==
    /\ hs_pc = "idle"
    /\ hs_process = "none"
    /\ hs_started = FALSE
    /\ hs_stop_called = FALSE
    /\ hs_how = "none"
    /\ hs_tool = 0
    /\ hs_run = 0
    /\ hs_exec_times = 0
    /\ hs_results = 0
    /\ hs_path = "none"

\* the parts of the model that are modelled further down are not running
RestIdle == RnIdle /\ MsIdle /\ EsIdle /\ ClIdle /\ NfIdle /\ HsIdle

\* lines 312-315.  The `nodes` dict the call also returns (all_nodes) is
\* never read by main() and is not kept.
LoadNodeSpecs ==
    /\ pc = "load_node_specs"
    /\ \E order \in Perms(DOMAIN node_files) :
         LET result == load_node_specs(node_files, order)
         IN  IF result.kind = "none"
             THEN /\ pc' = "returned_no_nodes"
                  /\ UNCHANGED <<node_types, node_specs>>
             ELSE IF result.kind = "raise"
             THEN /\ pc' = result.error
                  /\ UNCHANGED <<node_types, node_specs>>
             ELSE /\ pc' = "load_tool_oi"
                  /\ node_types' = result.node_types
                  /\ node_specs' = result.averaged_specs
    /\ UNCHANGED <<node_files, tool_oi, tool_idx, alphas,
                   tool_profiles, profile_file>>
    /\ UNCHANGED notMainVars

\* load_tool_oi, lines 195-214
load_tool_oi(file) == IF file = NoFile THEN Null ELSE file

\* lines 318-320; the OI file is whatever was written by hand before the run
LoadToolOi ==
    /\ pc = "load_tool_oi"
    /\ \E oi_file \in OIFiles :
       LET result == load_tool_oi(oi_file)
       IN  IF result = Null
           THEN /\ pc' = "returned_no_oi"
                /\ UNCHANGED <<tool_oi, tool_idx>>
           ELSE /\ tool_oi' = result
                /\ IF DOMAIN result = {}
                   THEN pc' = "returned_no_oi" /\ UNCHANGED tool_idx
                   ELSE pc' = "tool_loop" /\ tool_idx' = 1
    /\ UNCHANGED <<node_files, node_types, node_specs,
                   alphas, tool_profiles, profile_file>>
    /\ UNCHANGED notMainVars

\* variant: the largest per-tier alpha instead of the mean
mean_alpha_max(al) ==
    LET ts == SetToSeq(DOMAIN al)
    IN  MaxOf([i \in 1..Len(ts) |-> al[ts[i]]])

\* line 342
mean_alpha(al) ==
    LET ts == SetToSeq(DOMAIN al)
    IN  RDiv(RSum([i \in 1..Len(ts) |-> al[ts[i]]]), Int2Num(Len(ts)))

\* variant: one neutral default for every tier
p_comp_get_neutral(p_comp, t) ==
    IF t \in DOMAIN p_comp THEN p_comp[t] ELSE Half

\* lines 353-355: p_comp.get(tier, default)
p_comp_get(p_comp, t) ==
    IF t \in DOMAIN p_comp THEN p_comp[t] ELSE default_p_comp[t]

\* lines 332-333
oi_of(tool_name, oi_table) ==
    IF tool_name \in DOMAIN oi_table THEN oi_table[tool_name] ELSE DefaultOI

\* lines 337-339, before rounding
tier_alpha(oi, specs) == calculate_alpha_sigmoid(oi, specs.ridge_point)

\* one iteration of the loop of lines 330-359
ProcessTool ==
    /\ pc = "tool_loop"
    /\ tool_idx <= Len(get_all_tools)
    /\ LET tool == get_all_tools[tool_idx]
           oi == oi_of(tool.name, tool_oi)
           est == estimate_p_comp_from_oi(oi, node_specs)
       IN  \E al \in {f \in [DOMAIN node_specs ->
                              UNION {Round3s(tier_alpha(oi, node_specs[t])) :
                                        t \in DOMAIN node_specs}] :
                        \A t \in DOMAIN node_specs :
                            f[t] \in Round3s(tier_alpha(oi, node_specs[t]))} :
             /\ alphas' = al
             /\ IF est.kind = "raise"
                THEN /\ pc' = est.error
                     /\ UNCHANGED <<tool_idx, tool_profiles>>
                ELSE \E avg \in Round3s(mean_alpha(al)),
                        r_oi \in Round4s(oi),
                        p1 \in Round3s(p_comp_get(est.p_comp, "DEVICE")),
                        p2 \in Round3s(p_comp_get(est.p_comp, "EDGE")),
                        p3 \in Round3s(p_comp_get(est.p_comp, "CLOUD")) :
                       /\ tool_profiles' =
                            [n \in DOMAIN tool_profiles \cup {tool.name} |->
                               IF n = tool.name
                               THEN [data_locality |->
                                        determine_data_locality(tool.server),
                                     operational_intensity |-> r_oi,
                                     alpha |-> avg,
                                     P_comp |-> <<p1, p2, p3>>]
                               ELSE tool_profiles[n]]
                       /\ tool_idx' = tool_idx + 1
                       /\ pc' = pc
    /\ UNCHANGED <<node_files, node_types, node_specs,
                   tool_oi, profile_file>>
    /\ UNCHANGED notMainVars

\* lines 366-373
SaveProfile ==
    /\ pc = "tool_loop"
    /\ tool_idx > Len(get_all_tools)
    /\ profile_file' = [tools |-> tool_profiles, node_specs |-> node_specs]
    /\ pc' = "done"
    /\ UNCHANGED <<node_files, node_types, node_specs,
                   tool_oi, tool_idx, alphas, tool_profiles>>
    /\ UNCHANGED notMainVars

Init ==
    InitMain(RecordList(PeakVals, MemVals))
    /\ PfIdle /\ SgIdle /\ TrIdle /\ RestIdle

Next == LoadNodeSpecs \/ LoadToolOi \/ ProcessTool \/ SaveProfile

Spec == Init /\ [][Next]_vars

\* the same program on the node and OI values of the end-to-end scenario
InitScenario ==
    /\ InitMain(RecordList(ScenarioPeakVals, ScenarioMemVals))
    /\ PfIdle /\ SgIdle /\ TrIdle /\ RestIdle

SpecScenario == InitScenario /\ [][Next]_vars

(***************************************************************************)
(* estimate_p_comp_from_oi called on its own, on any tier specs.           *)
(***************************************************************************)
PfVals == {Zero, One, Int2Num(2)}
PfOIVals == {One, Int2Num(2)}

PfTierSpecs == [peak_flops : PfVals, memory_bw : PfVals, ridge_point : PfVals]

MainIdle ==
    /\ node_files = EmptyFn
    /\ pc = "idle"
    /\ node_types = EmptyFn
    /\ node_specs = EmptyFn
    /\ tool_oi = EmptyFn
    /\ tool_idx = 0
    /\ alphas = EmptyFn
    /\ tool_profiles = EmptyFn
    /\ profile_file = NoFile

\* every part of the model but g is not running
IdleBut(g) ==
    /\ g = "main" \/ MainIdle
    /\ g = "pf" \/ PfIdle
    /\ g = "sg" \/ SgIdle
    /\ g = "tr" \/ TrIdle
    /\ g = "rn" \/ RnIdle
    /\ g = "ms" \/ MsIdle
    /\ g = "es" \/ EsIdle
    /\ g = "cl" \/ ClIdle
    /\ g = "nf" \/ NfIdle
    /\ g = "hs" \/ HsIdle

InitPComp ==
    /\ MainIdle
    /\ SgIdle
    /\ TrIdle
    /\ RestIdle
    /\ pf_oi \in PfOIVals
    /\ pf_specs \in UNION {[T -> PfTierSpecs] : T \in SUBSET TierSet}
    /\ pf_result = Null
    /\ pf_pc = "call"

CallPComp ==
    /\ pf_pc = "call"
    /\ pf_result' = estimate_p_comp_from_oi(pf_oi, pf_specs)
    /\ pf_pc' = "done"
    /\ UNCHANGED <<pf_oi, pf_specs>>
    /\ UNCHANGED notPfVars

NextPComp == CallPComp

SpecPComp == InitPComp /\ [][NextPComp]_vars

(***************************************************************************)
(* Properties                                                              *)
(***************************************************************************)
Hosts == DOMAIN node_files
NumHosts == Cardinality(Hosts)
\* load_node_specs returned a classification
Classified == DOMAIN node_types # {}
Rate(h) == Get0(node_files[h].peak_flops)
Members(t) == {h \in DOMAIN node_types : node_types[h] = t}
SumOver(S, field) ==
    LET hs == SetToSeq(S)
    IN  RSum([i \in 1..Len(hs) |-> Get0(node_files[hs[i]][field])])
RAbs(a) == IF a.n < 0 THEN RNeg(a) ELSE a
Within(a, b, tol) == RLeq(RAbs(RSub(a, b)), tol)

\* the node types load_node_specs gives when the files are loaded in `order`
TypesFor(order) == load_node_specs(node_files, order).node_types

UniqueExtremes ==
    /\ \E h \in Hosts : \A g \in Hosts \ {h} : RLess(Rate(h), Rate(g))
    /\ \E h \in Hosts : \A g \in Hosts \ {h} : RLess(Rate(g), Rate(h))

\* C1 as stated, for measured rates that are not all equal: with 3 or more
\* nodes every node of lowest rate is DEVICE, every node of highest rate is
\* CLOUD, every other node is EDGE, and the assignment is the same for every
\* load order.
C1_AsStated ==
    (/\ Classified
     /\ NumHosts >= 3
     /\ \A h \in Hosts : IsNum(node_files[h].peak_flops)
     /\ \E h, g \in Hosts : Rate(h) # Rate(g)) =>
        /\ \A h \in Hosts :
             node_types[h] =
                IF \A g \in Hosts : RLeq(Rate(h), Rate(g)) THEN "DEVICE"
                ELSE IF \A g \in Hosts : RLeq(Rate(g), Rate(h)) THEN "CLOUD"
                ELSE "EDGE"
        /\ \A order \in Perms(Hosts) : TypesFor(order) = node_types

\* C1 amended: with 3 or more nodes exactly one node is DEVICE and none has
\* a lower rate, exactly one node is CLOUD and none has a higher rate, every
\* other node is EDGE, each node has exactly one tier, and when the lowest
\* and the highest rate are each held by one node the assignment is the
\* same for every load order.
C1_TierByRate ==
    (Classified /\ NumHosts >= 3) =>
        /\ DOMAIN node_types = Hosts
        /\ \A h \in Hosts : node_types[h] \in TierSet
        /\ Cardinality(Members("DEVICE")) = 1
        /\ Cardinality(Members("CLOUD")) = 1
        /\ \A h \in Members("DEVICE") : \A g \in Hosts : RLeq(Rate(h), Rate(g))
        /\ \A h \in Members("CLOUD") : \A g \in Hosts : RLeq(Rate(g), Rate(h))
        /\ UniqueExtremes =>
              \A order \in Perms(Hosts) : TypesFor(order) = node_types

C1_Witness ==
    /\ Classified
    /\ NumHosts = 3
    /\ UniqueExtremes
    /\ \E h1, h2, h3 \in Hosts :
          /\ Rate(h1) = Int2Num(1) /\ node_types[h1] = "DEVICE"
          /\ Rate(h2) = Int2Num(4) /\ node_types[h2] = "CLOUD"
          /\ Rate(h3) = Int2Num(2) /\ node_types[h3] = "EDGE"

\* C2: one node gives the tier DEVICE alone, two nodes give DEVICE and EDGE
\* and no CLOUD.
C2_FewNodes ==
    Classified =>
        /\ NumHosts = 1 =>
              /\ DOMAIN node_specs = {"DEVICE"}
              /\ {node_types[h] : h \in Hosts} = {"DEVICE"}
        /\ NumHosts = 2 =>
              /\ DOMAIN node_specs = {"DEVICE", "EDGE"}
              /\ {node_types[h] : h \in Hosts} = {"DEVICE", "EDGE"}
        /\ profile_file # NoFile =>
              DOMAIN profile_file.node_specs = DOMAIN node_specs

C2_Witness ==
    /\ Classified
    /\ NumHosts = 2
    /\ DOMAIN node_specs = {"DEVICE", "EDGE"}
    /\ profile_file # NoFile

\* C3: with no node file the run ends at the error return of
\* load_node_specs: no tier, no alpha, no profile, no profile file.
C3_NoNodes ==
    NumHosts = 0 =>
        /\ pc \in {"load_node_specs", "returned_no_nodes"}
        /\ node_types = EmptyFn
        /\ node_specs = EmptyFn
        /\ alphas = EmptyFn
        /\ tool_profiles = EmptyFn
        /\ profile_file = NoFile

C3_Witness == NumHosts = 0 /\ pc = "returned_no_nodes"

\* C4 as stated: a node whose peak_flops is null is classified without an
\* error and lands in the lowest tier.
C4_AsStated ==
    \A h \in Hosts :
        (node_files[h].peak_flops = Null /\ pc # "load_node_specs") =>
            /\ pc # "TypeError"
            /\ Classified
            /\ node_types[h] = "DEVICE"

\* C5 as stated: with at least one node (none with a null peak_flops) a run
\* that has ended has written the profile.
C5_AsStated ==
    (/\ NumHosts >= 1
     /\ \A h \in Hosts : node_files[h].peak_flops # Null
     /\ pc \notin {"load_node_specs", "load_tool_oi", "tool_loop"})
        => (pc = "done" /\ profile_file # NoFile)

\* C6: each averaged field of a tier is the sum of the field over the
\* tier's nodes divided by their number, the ridge point included.
C6_TierMeans ==
    Classified =>
        \A t \in DOMAIN node_specs :
            /\ Members(t) # {}
            /\ \A field \in {"peak_flops", "memory_bw", "ridge_point"} :
                  RMul(node_specs[t][field], Int2Num(Cardinality(Members(t))))
                     = SumOver(Members(t), field)

C6_Witness ==
    /\ Classified
    /\ \E t \in DOMAIN node_specs :
          /\ Cardinality(Members(t)) >= 2
          /\ \A h \in Members(t) : IsNum(node_files[h].ridge_point)
          /\ node_specs[t].ridge_point
                # RDiv(node_specs[t].peak_flops, node_specs[t].memory_bw)

\* the tiers of pf_specs the claim says are skipped
NonPositive(specs) ==
    RLeq(specs.peak_flops, Zero) \/ RLeq(specs.memory_bw, Zero)

\* C7 as stated: a tier whose peak_flops or memory_bw is not positive is
\* skipped, so the call returns without dividing by zero.
C7_AsStated ==
    (pf_pc = "done" /\ \E t \in DOMAIN pf_specs : NonPositive(pf_specs[t]))
        => pf_result.kind = "ok"

\* alpha / peak_flops + (1 - alpha) / memory_bw of a tier of pf_specs
InverseCost(t) ==
    LET r == pf_specs[t].ridge_point
        alpha == RDiv(RMul(pf_oi, pf_oi), RAdd(RMul(pf_oi, pf_oi), RMul(r, r)))
    IN  RAdd(RDiv(alpha, pf_specs[t].peak_flops),
             RDiv(RSub(One, alpha), pf_specs[t].memory_bw))

PfCosted == {t \in DOMAIN pf_specs : pf_specs[t].ridge_point # Zero}

\* C8: when the call returns with some tier costed, the result has exactly
\* the costed tiers; each value times (max - min) is (cost - min), the
\* cheapest tier has 0, the costliest 1, all lie in [0,1]; and when all
\* costs are equal every value is 1/2.
C8_MinMax ==
    (pf_pc = "done" /\ pf_result.kind = "ok" /\ PfCosted # {}) =>
        LET p == pf_result.p_comp
            lo == CHOOSE t \in PfCosted :
                    \A u \in PfCosted : RLeq(InverseCost(t), InverseCost(u))
            hi == CHOOSE t \in PfCosted :
                    \A u \in PfCosted : RLeq(InverseCost(u), InverseCost(t))
        IN  /\ DOMAIN p = PfCosted
            /\ IF InverseCost(lo) = InverseCost(hi)
               THEN \A t \in PfCosted : p[t] = Half
               ELSE /\ p[lo] = Zero
                    /\ p[hi] = One
                    /\ \A t \in PfCosted :
                          /\ RLeq(Zero, p[t]) /\ RLeq(p[t], One)
                          /\ RMul(p[t], RSub(InverseCost(hi), InverseCost(lo)))
                                = RSub(InverseCost(t), InverseCost(lo))

C8_Witness ==
    /\ pf_pc = "done"
    /\ pf_result.kind = "ok"
    /\ PfCosted = TierSet
    /\ \E t \in TierSet : pf_result.p_comp[t] = Zero
    /\ \E t \in TierSet : pf_result.p_comp[t] = One
    /\ \E t \in TierSet :
          /\ RLess(Zero, pf_result.p_comp[t])
          /\ RLess(pf_result.p_comp[t], One)
          /\ pf_result.p_comp[t] # Half

\* the tiers whose cost main() gets from estimate_p_comp_from_oi
Costed == {t \in DOMAIN node_specs : node_specs[t].ridge_point # Zero}

\* C9: every profile's P_comp has 3 entries, for DEVICE, EDGE and CLOUD in
\* this order, each in [0,1]; the entry of a tier that has no node, or that
\* the cost computation skipped, is 1 for DEVICE, 1/2 for EDGE, 0 for CLOUD.
C9_ThreeEntries ==
    \A name \in DOMAIN tool_profiles :
        LET P == tool_profiles[name].P_comp
        IN  /\ Len(P) = 3
            /\ \A i \in 1..3 : RLeq(Zero, P[i]) /\ RLeq(P[i], One)
            /\ "DEVICE" \notin Costed => P[1] = One
            /\ "EDGE" \notin Costed => P[2] = Half
            /\ "CLOUD" \notin Costed => P[3] = Zero

C9_Witness ==
    /\ pc = "done"
    /\ DOMAIN node_specs = {"DEVICE", "EDGE"}
    /\ Costed = {"EDGE"}
    /\ \A name \in ToolNames :
          /\ name \in DOMAIN profile_file.tools
          /\ profile_file.tools[name].P_comp = <<One, Half, Zero>>

\* the tool whose alphas the variable `alphas` holds
LastTool == get_all_tools[tool_idx - 1]
LastOI == oi_of(LastTool.name, tool_oi)
ToolDone == pc \in {"tool_loop", "done"} /\ tool_idx > 1

\* oi^2 / (oi^2 + ridge^2), and 1/2 for a tier whose ridge point is 0
TierAlpha(t) ==
    LET r == node_specs[t].ridge_point
    IN  IF r = Zero THEN Half
        ELSE RDiv(RMul(LastOI, LastOI),
                  RAdd(RMul(LastOI, LastOI), RMul(r, r)))

SumAlphas ==
    LET ts == SetToSeq(DOMAIN alphas)
    IN  RSum([i \in 1..Len(ts) |-> alphas[ts[i]]])

MeanOfAlphas == RDiv(SumAlphas, Int2Num(Cardinality(DOMAIN alphas)))

\* the end-to-end scenario: two nodes, ridge 0.1 and 1.0, a tool of OI 1.0
ScenarioState ==
    /\ ToolDone
    /\ DOMAIN node_specs = {"DEVICE", "EDGE"}
    /\ node_specs["DEVICE"] =
          [peak_flops |-> Int2Num(10), memory_bw |-> Int2Num(100),
           ridge_point |-> Num(1, 10)]
    /\ node_specs["EDGE"] =
          [peak_flops |-> Int2Num(100), memory_bw |-> Int2Num(100),
           ridge_point |-> One]
    /\ LastOI = One

\* C10 as stated: in the scenario the per-tier alphas are 0.978 and 0.5 and
\* the tool alpha is 0.739, each to within 0.001.
C10_AsStated ==
    ScenarioState =>
        /\ Within(alphas["DEVICE"], Num(978, 1000), Num(1, 1000))
        /\ Within(alphas["EDGE"], Half, Num(1, 1000))
        /\ Within(tool_profiles[LastTool.name].alpha, Num(739, 1000),
                  Num(1, 1000))

\* C10 amended: one alpha per tier, the roofline alpha of the tool's OI and
\* the tier's averaged ridge point rounded to 3 decimals; the tool's alpha
\* is their arithmetic mean rounded to 3 decimals; in the scenario the
\* per-tier alphas are 0.990 and 0.5 and the tool alpha is 0.745.
C10_MeanOfTierAlphas ==
    ToolDone =>
        /\ DOMAIN alphas = DOMAIN node_specs
        /\ \A t \in DOMAIN alphas :
              Within(alphas[t], TierAlpha(t), Num(1, 2000))
        /\ Within(tool_profiles[LastTool.name].alpha, MeanOfAlphas,
                  Num(1, 2000))
        /\ ScenarioState =>
              /\ alphas["DEVICE"] = Num(990, 1000)
              /\ alphas["EDGE"] = Half
              /\ tool_profiles[LastTool.name].alpha = Num(745, 1000)

C10_Witness ==
    /\ ScenarioState
    /\ pc = "done"
    /\ profile_file.tools[LastTool.name].alpha = Num(745, 1000)

(***************************************************************************)
(* calculate_alpha_sigmoid called on its own.  The arguments are null, a   *)
(* negative number, zero, values around the floor 1e-6 and values around   *)
(* 1; a pair is used when the function returns its default or when both    *)
(* floored values have the same magnitude, so that the exact alpha is a    *)
(* ratio of small integers.                                                *)
(***************************************************************************)
SgMicro == {Num(1, 2000000), Floor, Num(1, 500000), Num(1, 250000)}
SgUnit == {Half, One, Int2Num(2), Int2Num(4)}
SgVals == {Null, Int2Num(-1), Zero} \cup SgMicro \cup SgUnit

Magnitude(v) ==
    IF RLeq(RMax(v, Floor), Num(1, 250000)) THEN "micro" ELSE "unit"

InRange(oi, ridge_point) ==
    \/ returns_default(oi, ridge_point)
    \/ Magnitude(oi) = Magnitude(ridge_point)

SgPairs == {p \in SgVals \X SgVals : InRange(p[1], p[2])}

InitSigmoid ==
    /\ MainIdle
    /\ PfIdle
    /\ TrIdle
    /\ RestIdle
    /\ \E p \in SgPairs : sg_oi = p[1] /\ sg_ridge = p[2]
    /\ sg_logs = <<>>
    /\ sg_result = Null
    /\ sg_pc = "call"

CallSigmoid ==
    /\ sg_pc = "call"
    /\ sg_logs' = log_arguments(sg_oi, sg_ridge)
    /\ sg_result' = calculate_alpha_sigmoid(sg_oi, sg_ridge)
    /\ sg_pc' = "done"
    /\ UNCHANGED <<sg_oi, sg_ridge>>
    /\ UNCHANGED notSgVars

NextSigmoid == CallSigmoid

SpecSigmoid == InitSigmoid /\ [][NextSigmoid]_vars

(***************************************************************************)
(* 3_calculate_alpha_new.py: calculate_alpha and the step of               *)
(* generate_profile that applies it to one measurement of one host.        *)
(* (Run as a script the file stops at its line 32: utils/tool_definitions  *)
(* has no determine_data_locality to import.  The functions are modelled   *)
(* as they are written.)                                                   *)
(***************************************************************************)
\* line 100
bandwidth_bytes_per_sec(bandwidth_mbps) ==
    RDiv(RMul(bandwidth_mbps, Int2Num(1000000)), Int2Num(8))

\* variant: the transfer time is computed whatever the sign of the bandwidth
t_comm_ref_unchecked(input_size, output_size, bandwidth_mbps) ==
    IF bandwidth_mbps = Zero THEN Zero
    ELSE RDiv(RAdd(input_size, output_size),
              bandwidth_bytes_per_sec(bandwidth_mbps))

\* lines 103-106
t_comm_ref(input_size, output_size, bandwidth_mbps) ==
    IF RLess(Zero, bandwidth_bytes_per_sec(bandwidth_mbps))
    THEN RDiv(RAdd(input_size, output_size),
              bandwidth_bytes_per_sec(bandwidth_mbps))
    ELSE Zero

\* a / b of Python floats
divide(a, b) ==
    IF b = Zero THEN [kind |-> "raise", error |-> "ZeroDivisionError"]
    ELSE [kind |-> "ok", value |-> RDiv(a, b)]

\* variant: the ratio of the two times instead of the share of the first
time_share_ratio(t_exec, t_comm) ==
    LET q == divide(t_exec, t_comm)
    IN  IF q.kind = "raise" THEN [kind |-> "ok", alpha |-> One]
        ELSE [kind |-> "ok", alpha |-> RMax(Zero, q.value)]

\* lines 112-115
time_share(t_exec, t_comm) ==
    LET q == divide(t_exec, RAdd(t_exec, t_comm))
    IN  IF q.kind = "raise" THEN q
        ELSE [kind |-> "ok", alpha |-> RMin(One, RMax(Zero, q.value))]

\* variant: the default is returned whenever the transfer time is 0
calculate_alpha_default_on_no_transfer(t_exec, input_size, output_size, bandwidth_mbps) ==
    IF ~IsNum(bandwidth_mbps)
    THEN [kind |-> "raise", error |-> "TypeError"]
    ELSE LET t_comm == t_comm_ref(input_size, output_size, bandwidth_mbps)
         IN  IF t_comm = Zero
             THEN [kind |-> "ok", alpha |-> Half]
             ELSE time_share(t_exec, t_comm)

\* variant: the default is returned whenever the execution time is 0
calculate_alpha_default_on_no_exec(t_exec, input_size, output_size, bandwidth_mbps) ==
    IF ~IsNum(bandwidth_mbps)
    THEN [kind |-> "raise", error |-> "TypeError"]
    ELSE IF t_exec = Zero
         THEN [kind |-> "ok", alpha |-> Half]
         ELSE time_share(t_exec,
                 t_comm_ref(input_size, output_size, bandwidth_mbps))

\* variant: without the test of line 109
calculate_alpha_unguarded(t_exec, input_size, output_size, bandwidth_mbps) ==
    IF ~IsNum(bandwidth_mbps)
    THEN [kind |-> "raise", error |-> "TypeError"]
    ELSE time_share(t_exec,
                    t_comm_ref(input_size, output_size, bandwidth_mbps))

\* lines 86-115; a bandwidth of None fails at line 100
calculate_alpha(t_exec, input_size, output_size, bandwidth_mbps) ==
    IF ~IsNum(bandwidth_mbps)
    THEN [kind |-> "raise", error |-> "TypeError"]
    ELSE LET t_comm == t_comm_ref(input_size, output_size, bandwidth_mbps)
         IN  IF RAdd(t_exec, t_comm) = Zero
             THEN [kind |-> "ok", alpha |-> Half]
             ELSE time_share(t_exec, t_comm)

\* line 143: the fallback of a node without network_bandwidth_mbps
DefaultBandwidth == Int2Num(100)

\* lines 142-143: nodes.get(hostname, {}).get('network_bandwidth_mbps', 100)
node_bandwidth(node) ==
    IF node = EmptyFn \/ node.network_bandwidth_mbps = Absent
    THEN DefaultBandwidth
    ELSE node.network_bandwidth_mbps

\* network_bandwidth_mbps of a node file: not written (0_benchmark_cpu.py
\* alone), or the number 1_benchmark_node.py measured
TrBandwidths == {Absent, Int2Num(-1), Zero, Int2Num(100), Int2Num(200)}

\* nodes.get(hostname, {}): the record of the host, or {} without one
TrNodes == {EmptyFn} \cup [network_bandwidth_mbps : TrBandwidths]

\* one entry of <prefix>_tool_exec_time_<hostname>.json
TrExecTimes == {Zero, Half, One, Int2Num(2)}
TrSizes == {Zero, Int2Num(12500000)}
TrMeasurements ==
    [t_exec : TrExecTimes, input_size : TrSizes, output_size : TrSizes]

InitTimeRatio ==
    /\ MainIdle
    /\ PfIdle
    /\ SgIdle
    /\ RestIdle
    /\ tr_node \in TrNodes
    /\ tr_data \in TrMeasurements
    /\ tr_alpha = Null
    /\ tr_rounded = Null
    /\ tr_pc = "measure"

\* lines 141-151 for one host that has a measurement of the tool
MeasureOnNode ==
    /\ tr_pc = "measure"
    /\ LET bandwidth == node_bandwidth(tr_node)
           alpha == calculate_alpha(tr_data.t_exec, tr_data.input_size,
                                    tr_data.output_size, bandwidth)
       IN  /\ tr_alpha' = alpha
           /\ IF alpha.kind = "raise"
              THEN tr_pc' = alpha.error /\ UNCHANGED tr_rounded
              ELSE /\ tr_rounded' \in Round3s(alpha.alpha)
                   /\ tr_pc' = "done"
    /\ UNCHANGED <<tr_node, tr_data>>
    /\ UNCHANGED notTrVars

NextTimeRatio == MeasureOnNode

SpecTimeRatio == InitTimeRatio /\ [][NextTimeRatio]_vars

(***************************************************************************)
(* 3_calculate_alpha_new.py run as a script: the imports of line 32,       *)
(* load_node_specs, load_exec_times and generate_profile.  A hostname is   *)
(* the sequence of its parts between underscores (<<"edge", "nuc">> is     *)
(* edge_nuc).  No wasm_tool_exec_time_*.json is on disk, so main() skips   *)
(* the second profile.                                                     *)
(***************************************************************************)
\* the names utils/tool_definitions.py defines
tool_definitions_exports ==
    {"TOOLS", "get_all_tools", "get_tool_count", "get_tools_by_server"}

\* line 32: from utils.tool_definitions import ...
imported_names == {"get_all_tools", "determine_data_locality"}

\* the module found on the import path: the one of the repository, or one
\* that also defines determine_data_locality (as 3_calculate_alpha.py does)
RnExports ==
    {tool_definitions_exports,
     tool_definitions_exports \cup {"determine_data_locality"}}

HostNames == {<<"pi">>, <<"nuc">>, <<"edge", "nuc">>}

\* network_bandwidth_mbps of a node file
RnBandwidths == {Absent, Int2Num(200), Int2Num(50)}

RnNodeFiles ==
    UNION {[S -> [network_bandwidth_mbps : RnBandwidths]] :
              S \in SUBSET HostNames}

\* one entry of a measurement file (2a_measure_native_tools.py, line 163)
RnMeasurements ==
    {[t_exec |-> One, input_size |-> Int2Num(12500000),
      output_size |-> Zero]}

RnExecFiles ==
    UNION {[S -> UNION {[T -> RnMeasurements] : T \in SUBSET ToolNames}] :
              S \in SUBSET HostNames}

\* 2a_measure_native_tools.py, line 260: the parts of the file name between
\* underscores, the extension left out
exec_file_name(hostname) == <<"native", "tool", "exec", "time">> \o hostname

\* line 75: file.split('_')[-1].replace('.json', '')
hostname_of_file(file) == <<file[Len(file)]>>

\* lines 68-77 for the files in glob order: a later file replaces an earlier
\* one with the same key
RECURSIVE load_exec_times(_, _)
load_exec_times(files, order) ==
    IF order = <<>> THEN EmptyFn
    ELSE LET n == Len(order)
             rest == load_exec_times(files, SubSeq(order, 1, n - 1))
             key == hostname_of_file(exec_file_name(order[n]))
         IN  [k \in DOMAIN rest \cup {key} |->
                IF k = key THEN files[order[n]] ELSE rest[k]]

\* line 161
avg_alpha(al) ==
    LET ks == SetToSeq(DOMAIN al)
    IN  RDiv(RSum([i \in 1..Len(ks) |-> al[ks[i]]]), Int2Num(Len(ks)))

\* int(x) of a non-negative float
int(x) == x.n \div x.d

\* lines 164-165 and 177-178
avg_size(exec, keys, field) ==
    LET ks == SetToSeq(keys)
    IN  int(RDiv(RSum([i \in 1..Len(ks) |-> exec[ks[i]][field]]),
                 Int2Num(Len(ks))))

InitRun ==
    /\ IdleBut("rn")
    /\ rn_exports \in RnExports
    /\ rn_node_files \in RnNodeFiles
    /\ rn_exec_files \in RnExecFiles
    /\ rn_pc = "import"
    /\ rn_nodes = EmptyFn
    /\ rn_exec = EmptyFn
    /\ rn_tool_idx = 0
    /\ rn_alphas = EmptyFn
    /\ rn_profiles = EmptyFn
    /\ rn_notes = {}
    /\ rn_report = NoFile

\* lines 25-32
RunImport ==
    /\ rn_pc = "import"
    /\ rn_pc' = IF imported_names \subseteq rn_exports
                THEN "load_node_specs" ELSE "ImportError"
    /\ UNCHANGED <<rn_exports, rn_node_files, rn_exec_files, rn_nodes,
                   rn_exec, rn_tool_idx, rn_alphas, rn_profiles, rn_notes,
                   rn_report>>
    /\ UNCHANGED notRnVars

\* lines 225-227 with load_node_specs, lines 35-57
RunLoadNodeSpecs ==
    /\ rn_pc = "load_node_specs"
    /\ IF DOMAIN rn_node_files = {}
       THEN rn_pc' = "returned_no_nodes" /\ UNCHANGED rn_nodes
       ELSE rn_pc' = "load_exec_times" /\ rn_nodes' = rn_node_files
    /\ UNCHANGED <<rn_exports, rn_node_files, rn_exec_files, rn_exec,
                   rn_tool_idx, rn_alphas, rn_profiles, rn_notes, rn_report>>
    /\ UNCHANGED notRnVars

\* lines 231-244 (and 250-258 when there is nothing to profile)
RunLoadExecTimes ==
    /\ rn_pc = "load_exec_times"
    /\ \E order \in Perms(DOMAIN rn_exec_files) :
          rn_exec' = load_exec_times(rn_exec_files, order)
    /\ IF DOMAIN rn_exec_files = {}
       THEN rn_pc' = "done" /\ UNCHANGED rn_tool_idx
       ELSE rn_pc' = "generate_profile" /\ rn_tool_idx' = 1
    /\ UNCHANGED <<rn_exports, rn_node_files, rn_exec_files, rn_nodes,
                   rn_alphas, rn_profiles, rn_notes, rn_report>>
    /\ UNCHANGED notRnVars

\* one iteration of the loop of lines 127-186
RunProfileTool ==
    /\ rn_pc = "generate_profile"
    /\ rn_tool_idx <= Len(get_all_tools)
    /\ LET tool == get_all_tools[rn_tool_idx]
           keys == {k \in DOMAIN rn_exec : tool.name \in DOMAIN rn_exec[k]}
           data == [k \in keys |-> rn_exec[k][tool.name]]
           node_of(k) == IF k \in DOMAIN rn_nodes THEN rn_nodes[k] ELSE EmptyFn
           alpha_on(k) ==
               calculate_alpha(data[k].t_exec, data[k].input_size,
                               data[k].output_size,
                               node_bandwidth(node_of(k))).alpha
       IN  IF keys = {}
           THEN /\ rn_notes' = rn_notes \cup {tool.name}
                /\ rn_alphas' = EmptyFn
                /\ UNCHANGED rn_profiles
           ELSE \E al \in {f \in [keys -> UNION {Round3s(alpha_on(k)) :
                                                    k \in keys}] :
                              \A k \in keys : f[k] \in Round3s(alpha_on(k))},
                   te \in {f \in [keys -> UNION {Round4s(data[k].t_exec) :
                                                    k \in keys}] :
                              \A k \in keys :
                                  f[k] \in Round4s(data[k].t_exec)} :
                \E avg \in Round3s(avg_alpha(al)) :
                   /\ rn_alphas' = al
                   /\ rn_profiles' =
                        [n \in DOMAIN rn_profiles \cup {tool.name} |->
                           IF n = tool.name
                           THEN [data_locality |->
                                    determine_data_locality(tool.server),
                                 alpha |-> avg,
                                 alpha_by_node |-> al,
                                 t_exec_by_node |-> te,
                                 avg_input_size_bytes |->
                                    avg_size(data, keys, "input_size"),
                                 avg_output_size_bytes |->
                                    avg_size(data, keys, "output_size")]
                           ELSE rn_profiles[n]]
                   /\ UNCHANGED rn_notes
    /\ rn_tool_idx' = rn_tool_idx + 1
    /\ UNCHANGED <<rn_exports, rn_node_files, rn_exec_files, rn_pc, rn_nodes,
                   rn_exec, rn_report>>
    /\ UNCHANGED notRnVars

\* lines 188-198, and the return to main(), lines 250-261
RunSaveProfile ==
    /\ rn_pc = "generate_profile"
    /\ rn_tool_idx > Len(get_all_tools)
    /\ rn_report' = [tools |-> rn_profiles,
                     measured_nodes |-> DOMAIN rn_exec,
                     total_tools |-> Cardinality(DOMAIN rn_profiles)]
    /\ rn_pc' = "done"
    /\ UNCHANGED <<rn_exports, rn_node_files, rn_exec_files, rn_nodes,
                   rn_exec, rn_tool_idx, rn_alphas, rn_profiles, rn_notes>>
    /\ UNCHANGED notRnVars

NextRun ==
    \/ RunImport
    \/ RunLoadNodeSpecs
    \/ RunLoadExecTimes
    \/ RunProfileTool
    \/ RunSaveProfile

SpecRun == InitRun /\ [][NextRun]_vars

(***************************************************************************)
(* The measurement runners: the loop over the runs of one tool, in          *)
(* measure_tool_native (2a), measure_tool_wasm (2b) and measure_tool with   *)
(* its caller (2d).                                                         *)
(***************************************************************************)
\* runs=3 (2a line 91, 2b line 239), NUM_RUNS = 3 (2d line 137)
NUM_RUNS == 3

Runners == {"native", "wasm", "cloud"}

\* what one run of the loop ends in: the call came back with success, came
\* back with a failure (returncode # 0), timed out, or raised something else
RunOutcomes == {"ok", "failed", "timeout", "error"}

\* end - start of a call that came back, in seconds
RunDurations == {Int2Num(1), Int2Num(2)}

\* One pass through the body of `for run in range(runs)`: the exec_times
\* after it and whether the function returned None from inside the loop.
\*   2a: a call that came back is appended whatever its returncode (line
\*       135), a timeout appends 10.0 (line 150), another exception returns
\*       None (line 153).
\*   2b: only a call with returncode 0 is appended (lines 293, 296); a
\*       failed call and a timeout append nothing; another exception returns
\*       None (line 310).
\*   2d: a call that came back is appended (line 151); every exception
\*       continues (lines 159-161).
run_body(runner, exec_times, outcome, duration) ==
    CASE runner = "native" ->
            IF outcome \in {"ok", "failed"}
            THEN [exec_times |-> Append(exec_times, duration), returned |-> FALSE]
            ELSE IF outcome = "timeout"
            THEN [exec_times |-> Append(exec_times, Int2Num(10)), returned |-> FALSE]
            ELSE [exec_times |-> exec_times, returned |-> TRUE]
      [] runner = "wasm" ->
            IF outcome = "ok"
            THEN [exec_times |-> Append(exec_times, duration), returned |-> FALSE]
            ELSE IF outcome \in {"failed", "timeout"}
            THEN [exec_times |-> exec_times, returned |-> FALSE]
            ELSE [exec_times |-> exec_times, returned |-> TRUE]
      [] OTHER ->
            IF outcome = "ok"
            THEN [exec_times |-> Append(exec_times, duration), returned |-> FALSE]
            ELSE [exec_times |-> exec_times, returned |-> FALSE]

\* What follows the loop: no record when exec_times is empty (2a lines
\* 155-156, 2b lines 312-313, 2d line 240); else the record, with
\* 'runs': runs in 2a and 2b (lines 166, 322) and 'runs': len(exec_times) in
\* 2d (line 247).  tool_name, server and the sizes are left out.
measurement_record(runner, exec_times, runs) ==
    IF exec_times = <<>> THEN Null
    ELSE [t_exec       |-> RDiv(RSum(exec_times), Int2Num(Len(exec_times))),
          runs         |-> IF runner = "cloud" THEN Len(exec_times) ELSE runs,
          measurements |-> exec_times]

InitMeasure ==
    /\ IdleBut("ms")
    /\ ms_runner \in Runners
    /\ ms_run = 0
    /\ ms_exec_times = <<>>
    /\ ms_pc = "loop"
    /\ ms_record = Null

\* one run of the loop
MeasureRun ==
    /\ ms_pc = "loop"
    /\ ms_run < NUM_RUNS
    /\ \E outcome \in RunOutcomes, duration \in RunDurations :
         LET after == run_body(ms_runner, ms_exec_times, outcome, duration)
         IN  /\ ms_exec_times' = after.exec_times
             /\ ms_run' = ms_run + 1
             /\ ms_pc' = IF after.returned THEN "returned" ELSE "loop"
    /\ UNCHANGED <<ms_runner, ms_record>>
    /\ UNCHANGED notMsVars

\* the loop is over: the record is returned (2a, 2b) or appended to the
\* results (2d), or there is none
MeasureReturn ==
    /\ ms_pc = "loop"
    /\ ms_run = NUM_RUNS
    /\ ms_record' = measurement_record(ms_runner, ms_exec_times, NUM_RUNS)
    /\ ms_pc' = "returned"
    /\ UNCHANGED <<ms_runner, ms_run, ms_exec_times>>
    /\ UNCHANGED notMsVars

NextMeasure ==
    \/ MeasureRun
    \/ MeasureReturn

SpecMeasure == InitMeasure /\ [][NextMeasure]_vars

(***************************************************************************)
(* The estimator of 3_calculate_alpha.py used for one tool after another,  *)
(* in any order and repeatedly, on node specs loaded once.                 *)
(***************************************************************************)
MaxCalls == 3

\* the TOOLS dict as the module defines it: no tool dict has a 'server' key
TOOLS_dicts ==
    [i \in 1..Len(TOOLS) |->
        [server |-> TOOLS[i].server,
         tools  |-> [j \in 1..Len(TOOLS[i].tools) |->
                        [name |-> TOOLS[i].tools[j], server |-> Absent]]]]

\* a string as the value of a key that can be absent
Str(s) == [k |-> "str", v |-> s]

\* variant: a second call takes the key away again
set_server_toggle(table) ==
    [i \in 1..Len(table) |->
        [server |-> table[i].server,
         tools  |-> [j \in 1..Len(table[i].tools) |->
                        [name   |-> table[i].tools[j].name,
                         server |-> IF table[i].tools[j].server = Absent
                                    THEN Str(table[i].server)
                                    ELSE Absent]]]]

\* lines 246-248 of get_all_tools: tool['server'] = server_name, on the
\* dicts of the table itself
set_server(table) ==
    [i \in 1..Len(table) |->
        [server |-> table[i].server,
         tools  |-> [j \in 1..Len(table[i].tools) |->
                        [name   |-> table[i].tools[j].name,
                         server |-> Str(table[i].server)]]]]

RECURSIVE tool_refs(_, _)
\* lines 245-249: all_tools holds the dicts of the table, server by server
tool_refs(table, i) ==
    IF i > Len(table) THEN <<>>
    ELSE [j \in 1..Len(table[i].tools) |-> <<i, j>>] \o tool_refs(table, i + 1)

\* the results lines 332-359 can give for one tool dict (round() gives one
\* of them), or the exception
tool_results(tool, oi_table, specs) ==
    LET oi == oi_of(tool.name, oi_table)
        est == estimate_p_comp_from_oi(oi, specs)
    IN  IF est.kind = "raise" THEN {[kind |-> "raise", error |-> est.error]}
        ELSE IF tool.server = Absent
        THEN \* line 349: tool['server']
             {[kind |-> "raise", error |-> "KeyError"]}
        ELSE
        {[kind |-> "ok",
          data_locality |-> determine_data_locality(tool.server.v),
          operational_intensity |-> r_oi,
          alpha |-> avg,
          P_comp |-> <<p1, p2, p3>>] :
            avg \in UNION {Round3s(mean_alpha(al)) :
                     al \in {f \in [DOMAIN specs ->
                                UNION {Round3s(tier_alpha(oi, specs[t])) :
                                          t \in DOMAIN specs}] :
                              \A t \in DOMAIN specs :
                                  f[t] \in Round3s(tier_alpha(oi, specs[t]))}},
            r_oi \in Round4s(oi),
            p1 \in Round3s(p_comp_get(est.p_comp, "DEVICE")),
            p2 \in Round3s(p_comp_get(est.p_comp, "EDGE")),
            p3 \in Round3s(p_comp_get(est.p_comp, "CLOUD"))}

InitEstimator ==
    /\ IdleBut("es")
    /\ es_TOOLS = TOOLS_dicts
    /\ es_listed = <<>>
    /\ \E files \in NodeFileSets(RecordList(ScenarioPeakVals, ScenarioMemVals)) :
         \E order \in Perms(DOMAIN files) :
            LET result == load_node_specs(files, order)
            IN  /\ result.kind = "ok"
                /\ es_nodes = files
                /\ es_node_specs = result.averaged_specs
    /\ es_tool_oi \in UNION {[S -> OIVals] : S \in SUBSET ToolNames}
    /\ es_history = <<>>

\* a call of get_all_tools()
EstimatorGetAllTools ==
    /\ es_TOOLS' = set_server(es_TOOLS)
    /\ es_listed' = tool_refs(es_TOOLS, 1)
    /\ UNCHANGED <<es_nodes, es_node_specs, es_tool_oi, es_history>>
    /\ UNCHANGED notEsVars

\* the body of the loop of lines 330-359 for any tool of the list
EstimatorCompute ==
    /\ Len(es_history) < MaxCalls
    /\ \E r \in 1..Len(es_listed) :
         LET tool == es_TOOLS[es_listed[r][1]].tools[es_listed[r][2]]
         IN  \E res \in tool_results(tool, es_tool_oi, es_node_specs) :
                es_history' = Append(es_history,
                                     [tool |-> tool.name, result |-> res])
    /\ UNCHANGED <<es_TOOLS, es_listed, es_nodes, es_node_specs, es_tool_oi>>
    /\ UNCHANGED notEsVars

NextEstimator ==
    \/ EstimatorGetAllTools
    \/ EstimatorCompute

SpecEstimator == InitEstimator /\ [][NextEstimator]_vars

(***************************************************************************)
(* load_node_specs called on its own, with the load order kept.            *)
(***************************************************************************)
InitClassify ==
    /\ IdleBut("cl")
    /\ cl_files \in NodeFileSets(RecordList(<<Int2Num(1), Int2Num(2)>>, <<One>>))
    /\ cl_order \in Perms(DOMAIN cl_files)
    /\ cl_result = Null
    /\ cl_pc = "call"

CallLoadNodeSpecs ==
    /\ cl_pc = "call"
    /\ cl_result' = load_node_specs(cl_files, cl_order)
    /\ cl_pc' = "done"
    /\ UNCHANGED <<cl_files, cl_order>>
    /\ UNCHANGED notClVars

NextClassify == CallLoadNodeSpecs

SpecClassify == InitClassify /\ [][NextClassify]_vars

(***************************************************************************)
(* The node files over the runs of 0_benchmark_cpu.py and                  *)
(* 1_benchmark_node.py on the hosts, and load_node_specs reading them.     *)
(***************************************************************************)
NfHosts == {"pi", "nuc"}

\* outcomes of benchmark_cpu() and benchmark_memory() of 1_benchmark_node.py:
\* None, or the float the benchmark printed
NfPeaks == {Null, Zero, Int2Num(2)}
NfMems == {Null, Zero, One}

\* outcomes of measure_gflops() and measure_memory_bandwidth() of
\* 0_benchmark_cpu.py: None, or GFLOPS and MiB/sec
NfGflops == {Null, Int2Num(5), Int2Num(7)}
NfMibps == {Null, Int2Num(1024)}

\* the keys of a node file
NodeKeys == {"hostname", "os", "machine", "peak_flops", "memory_bw",
             "ridge_point", "network_bandwidth_mbps", "storage",
             "cpu_model", "cpu_cores", "cpu_freq_mhz", "peak_gflops",
             "memory_bandwidth_mibps", "memory_bandwidth_gibps"}

\* a dict as a record of all the keys, Absent for a key it does not have
dict_of(d) == [k \in NodeKeys |-> IF k \in DOMAIN d THEN d[k] ELSE Absent]

\* d.update(other)
dict_update(d, other) ==
    [k \in NodeKeys |-> IF k \in DOMAIN other THEN other[k] ELSE d[k]]

\* 1_benchmark_node.py lines 256-296: node_data, written over the file
benchmark_node_data(hostname, peak_flops, memory_bw) ==
    dict_of(benchmark_node_record(peak_flops, memory_bw) @@
            [hostname |-> Str(hostname),
             os |-> Str("Linux"),
             machine |-> Str("aarch64"),
             network_bandwidth_mbps |-> Int2Num(100),
             storage |-> Null])

\* 0_benchmark_cpu.py lines 79-83
get_cpu_info == [cpu_model |-> Str("Cortex-A72"),
                 cpu_cores |-> Int2Num(4),
                 cpu_freq_mhz |-> Null]

\* variant: node_data is always made anew
benchmark_cpu_data_fresh(existing, hostname, cpu_info, gflops, mibps, gibps) ==
    LET updated == dict_update(dict_of([hostname |-> Str(hostname),
                                        os |-> Str("Linux"),
                                        machine |-> Str("aarch64")]),
                               cpu_info)
        with_gflops == IF Truthy(gflops)
                       THEN dict_update(updated, [peak_gflops |-> gflops])
                       ELSE updated
    IN  IF Truthy(mibps)
        THEN dict_update(with_gflops, [memory_bandwidth_mibps |-> mibps,
                                       memory_bandwidth_gibps |-> gibps])
        ELSE with_gflops

\* 0_benchmark_cpu.py lines 252-276: node_data, from the existing file or
\* made anew; gflops, mibps and gibps are the rounded measurements
benchmark_cpu_data(existing, hostname, cpu_info, gflops, mibps, gibps) ==
    LET node_data == IF existing # NoFile THEN existing
                     ELSE dict_of([hostname |-> Str(hostname),
                                   os |-> Str("Linux"),
                                   machine |-> Str("aarch64")])
        updated == dict_update(node_data, cpu_info)
        with_gflops == IF Truthy(gflops)
                       THEN dict_update(updated, [peak_gflops |-> gflops])
                       ELSE updated
    IN  IF Truthy(mibps)
        THEN dict_update(with_gflops, [memory_bandwidth_mibps |-> mibps,
                                       memory_bandwidth_gibps |-> gibps])
        ELSE with_gflops

\* round(x, 2), None passed through
Round2s(x) == IF IsNum(x) THEN Rounds(x, 100) ELSE {x}

write_file(files, hostname, data) ==
    [h \in DOMAIN files \cup {hostname} |->
        IF h = hostname THEN data ELSE files[h]]

InitNodeFile ==
    /\ IdleBut("nf")
    /\ nf_files = EmptyFn
    /\ nf_last = [op |-> "none"]
    /\ nf_loaded = Null

\* a run of 1_benchmark_node.py on the host
BenchmarkNode ==
    /\ nf_loaded = Null
    /\ \E hostname \in NfHosts, peak_flops \in NfPeaks, memory_bw \in NfMems :
         /\ nf_files' = write_file(nf_files, hostname,
                            benchmark_node_data(hostname, peak_flops, memory_bw))
         /\ nf_last' = [op |-> "node", hostname |-> hostname,
                        cpu |-> peak_flops, memory |-> memory_bw]
    /\ UNCHANGED nf_loaded
    /\ UNCHANGED notNfVars

\* a run of 0_benchmark_cpu.py on the host
BenchmarkCpu ==
    /\ nf_loaded = Null
    /\ \E hostname \in NfHosts, gflops \in NfGflops, memory_bw \in NfMibps :
         \E r_gflops \in Round2s(gflops), r_mibps \in Round2s(memory_bw),
            r_gibps \in Round2s(IF IsNum(memory_bw)
                                THEN RDiv(memory_bw, Int2Num(1024))
                                ELSE memory_bw) :
         /\ nf_files' = write_file(nf_files, hostname,
                benchmark_cpu_data(IF hostname \in DOMAIN nf_files
                                   THEN nf_files[hostname] ELSE NoFile,
                                   hostname, get_cpu_info,
                                   r_gflops, r_mibps, r_gibps))
         /\ nf_last' = [op |-> "cpu", hostname |-> hostname,
                        cpu |-> gflops, memory |-> memory_bw]
    /\ UNCHANGED nf_loaded
    /\ UNCHANGED notNfVars

\* 3_calculate_alpha.py reads the files
LoadNodeFiles ==
    /\ nf_loaded = Null
    /\ \E order \in Perms(DOMAIN nf_files) :
         nf_loaded' = load_node_specs(nf_files, order)
    /\ nf_last' = [op |-> "load"]
    /\ UNCHANGED nf_files
    /\ UNCHANGED notNfVars

NextNodeFile ==
    \/ BenchmarkNode
    \/ BenchmarkCpu
    \/ LoadNodeFiles

SpecNodeFile == InitNodeFile /\ [][NextNodeFile]_vars

(***************************************************************************)
(* measure_server_tools of 2c_measure_http_tools.py and the wasmtime serve *)
(* process it starts and stops.                                            *)
(***************************************************************************)
\* the tool_names of the server measured
HttpToolNames == <<"read_file", "write_file">>

\* variant: no kill after the wait has timed out
stop_wasmtime_server_no_kill(process, obeys_terminate) ==
    IF process = "running"
    THEN IF obeys_terminate
         THEN [process |-> "exited", how |-> "terminated"]
         ELSE [process |-> "running", how |-> "terminated"]
    ELSE [process |-> process, how |-> "already_exited"]

\* lines 149-160: nothing for a process that has exited; else terminate(),
\* wait(timeout=5), and on TimeoutExpired kill() and wait().  The process
\* either exits on the SIGTERM within the 5 seconds or does not.
stop_wasmtime_server(process, obeys_terminate) ==
    IF process = "running"
    THEN IF obeys_terminate
         THEN [process |-> "exited", how |-> "terminated"]
         ELSE [process |-> "exited", how |-> "killed"]
    ELSE [process |-> process, how |-> "already_exited"]

InitHttp ==
    /\ IdleBut("hs")
    /\ hs_pc = "start"
    /\ hs_process = "none"
    /\ hs_started = FALSE
    /\ hs_stop_called = FALSE
    /\ hs_how = "none"
    /\ hs_tool = 0
    /\ hs_run = 0
    /\ hs_exec_times = 0
    /\ hs_results = 0
    /\ hs_path = "none"

\* lines 188-204: the wasm file is missing, or the server is started and
\* is running after the 2 seconds or has exited by then
HttpStart ==
    /\ hs_pc = "start"
    /\ \E outcome \in {"no_wasm_file", "running", "failed_to_start"} :
         CASE outcome = "no_wasm_file" ->
                /\ hs_pc' = "returned"
                /\ hs_path' = "no_wasm_file"
                /\ UNCHANGED <<hs_process, hs_started>>
           [] outcome = "failed_to_start" ->
                /\ hs_pc' = "returned"
                /\ hs_path' = "failed_to_start"
                /\ hs_process' = "exited"
                /\ UNCHANGED hs_started
           [] OTHER ->
                /\ hs_pc' = "verify"
                /\ hs_process' = "running"
                /\ hs_started' = TRUE
                /\ UNCHANGED hs_path
    /\ UNCHANGED <<hs_stop_called, hs_how, hs_tool, hs_run, hs_exec_times,
                   hs_results>>
    /\ UNCHANGED notHsVars

\* the server process ends by itself
ServerExits ==
    /\ hs_pc \in {"verify", "tools", "sleep", "finally"}
    /\ hs_process = "running"
    /\ hs_process' = "exited"
    /\ UNCHANGED <<hs_pc, hs_started, hs_stop_called, hs_how, hs_tool, hs_run,
                   hs_exec_times, hs_results, hs_path>>
    /\ UNCHANGED notHsVars

\* lines 212-223: tools/list answers with 200, answers with another status
\* (return []), or the request raises (return [])
HttpVerify ==
    /\ hs_pc = "verify"
    /\ \E outcome \in {"ok", "not_responding", "connect_failed"} :
         IF outcome = "ok"
         THEN /\ hs_pc' = "tools"
              /\ hs_tool' = 1
              /\ UNCHANGED hs_path
         ELSE /\ hs_pc' = "finally"
              /\ hs_path' = outcome
              /\ UNCHANGED hs_tool
    /\ UNCHANGED <<hs_process, hs_started, hs_stop_called, hs_how, hs_run,
                   hs_exec_times, hs_results>>
    /\ UNCHANGED notHsVars

\* lines 226-232: a tool without payload or not on the server is skipped
HttpSkipTool ==
    /\ hs_pc = "tools"
    /\ hs_tool <= Len(HttpToolNames)
    /\ hs_run = 0
    /\ hs_tool' = hs_tool + 1
    /\ UNCHANGED <<hs_pc, hs_process, hs_started, hs_stop_called, hs_how,
                   hs_run, hs_exec_times, hs_results, hs_path>>
    /\ UNCHANGED notHsVars

\* lines 241-251: one run of a tool; a call that raises is skipped
HttpRun ==
    /\ hs_pc = "tools"
    /\ hs_tool <= Len(HttpToolNames)
    /\ hs_run < NUM_RUNS
    /\ \E ok \in BOOLEAN :
         hs_exec_times' = IF ok THEN hs_exec_times + 1 ELSE hs_exec_times
    /\ hs_run' = hs_run + 1
    /\ UNCHANGED <<hs_pc, hs_process, hs_started, hs_stop_called, hs_how,
                   hs_tool, hs_results, hs_path>>
    /\ UNCHANGED notHsVars

\* lines 253-267: the record of the tool, if any run succeeded
HttpRecord ==
    /\ hs_pc = "tools"
    /\ hs_tool <= Len(HttpToolNames)
    /\ hs_run = NUM_RUNS
    /\ hs_results' = IF hs_exec_times > 0 THEN hs_results + 1 ELSE hs_results
    /\ hs_tool' = hs_tool + 1
    /\ hs_run' = 0
    /\ hs_exec_times' = 0
    /\ UNCHANGED <<hs_pc, hs_process, hs_started, hs_stop_called, hs_how,
                   hs_path>>
    /\ UNCHANGED notHsVars

\* lines 269-270: the loop is over, the client is closed, sleep(0.5)
HttpSleep ==
    /\ hs_pc = "tools"
    /\ hs_tool > Len(HttpToolNames)
    /\ hs_pc' = "sleep"
    /\ UNCHANGED <<hs_process, hs_started, hs_stop_called, hs_how, hs_tool,
                   hs_run, hs_exec_times, hs_results, hs_path>>
    /\ UNCHANGED notHsVars

HttpCompleted ==
    /\ hs_pc = "sleep"
    /\ hs_pc' = "finally"
    /\ hs_path' = "completed"
    /\ UNCHANGED <<hs_process, hs_started, hs_stop_called, hs_how, hs_tool,
                   hs_run, hs_exec_times, hs_results>>
    /\ UNCHANGED notHsVars

\* an exception leaves the try block: an Exception is printed by lines
\* 272-275, a cancellation of the coroutine passes through
HttpException ==
    /\ hs_pc \in {"verify", "tools", "sleep"}
    /\ hs_pc' = "finally"
    /\ hs_path' \in {"client_error", "cancelled"}
    /\ UNCHANGED <<hs_process, hs_started, hs_stop_called, hs_how, hs_tool,
                   hs_run, hs_exec_times, hs_results>>
    /\ UNCHANGED notHsVars

\* lines 277-281: finally, then the return or the propagating exception
HttpFinally ==
    /\ hs_pc = "finally"
    /\ \E obeys_terminate \in BOOLEAN :
         LET stopped == stop_wasmtime_server(hs_process, obeys_terminate)
         IN  /\ hs_process' = stopped.process
             /\ hs_how' = stopped.how
    /\ hs_stop_called' = TRUE
    /\ hs_pc' = IF hs_path = "cancelled" THEN "raised" ELSE "returned"
    /\ UNCHANGED <<hs_started, hs_tool, hs_run, hs_exec_times, hs_results,
                   hs_path>>
    /\ UNCHANGED notHsVars

NextHttp ==
    \/ HttpStart
    \/ ServerExits
    \/ HttpVerify
    \/ HttpSkipTool
    \/ HttpRun
    \/ HttpRecord
    \/ HttpSleep
    \/ HttpCompleted
    \/ HttpException
    \/ HttpFinally

SpecHttp == InitHttp /\ [][NextHttp]_vars

(***************************************************************************)
(* C11 - C20                                                               *)
(***************************************************************************)
\* the tool names of the TOOLS table itself
DefinedToolNames ==
    UNION {{TOOLS[i].tools[j] : j \in 1..Len(TOOLS[i].tools)} :
              i \in 1..Len(TOOLS)}

\* the fields main() gives every tool of the report (the description text
\* is copied from the table and left out)
ProfileFields == {"data_locality", "operational_intensity", "alpha", "P_comp"}

\* the tools of the table that the OI file read by the run has no entry for
Unmeasured == DefinedToolNames \ DOMAIN tool_oi

\* a report entry that marks its tool as unmeasured: a field besides the
\* value fields, or an operational_intensity that is not a number
Flagged(e) == DOMAIN e # ProfileFields \/ ~IsNum(e.operational_intensity)

\* C11 as stated: in the report of the roofline run every tool of the static
\* list appears, the report's tool names are exactly the defined names, and
\* a tool without an OI measurement is flagged as unmeasured.
C11_AsStated ==
    profile_file # NoFile =>
        /\ DOMAIN profile_file.tools = DefinedToolNames
        /\ \A t \in Unmeasured : Flagged(profile_file.tools[t])

\* C11 amended: in every written report the tool names are exactly the
\* defined names (one entry per name), and a tool without an OI measurement
\* has an ordinary entry computed from the default OI 0.5, with no mark that
\* tells it from a measured tool.
C11_EveryToolOnce ==
    profile_file # NoFile =>
        /\ DOMAIN profile_file.tools = DefinedToolNames
        /\ \A t \in DefinedToolNames :
              DOMAIN profile_file.tools[t] = ProfileFields
        /\ \A t \in Unmeasured :
              profile_file.tools[t].operational_intensity = Half

C11_Witness ==
    /\ profile_file # NoFile
    /\ Unmeasured # {}
    /\ DOMAIN tool_oi # {}
    /\ DOMAIN profile_file.tools = DefinedToolNames

Positive(v) == IsNum(v) /\ RLess(Zero, v)
NonPositiveNum(v) == IsNum(v) /\ RLeq(v, Zero)
Offending(v) == v = Null \/ NonPositiveNum(v)

\* C12: whenever calculate_alpha_sigmoid takes a logarithm, for any OI and
\* ridge_point (null, zero, negative or positive), the argument is positive:
\* it is the input floored at 1e-6, and the call returns a number.
C12_LogArgsPositive ==
    sg_pc = "done" =>
        /\ IsNum(sg_result)
        /\ \A i \in 1..Len(sg_logs) :
              /\ Positive(sg_logs[i])
              /\ RLeq(Floor, sg_logs[i])
        /\ Len(sg_logs) = 2 =>
              /\ sg_logs[1] = RMax(sg_oi, Floor)
              /\ sg_logs[2] = RMax(sg_ridge, Floor)

C12_Witness ==
    /\ sg_pc = "done"
    /\ NonPositiveNum(sg_oi)
    /\ NonPositiveNum(sg_ridge)
    /\ Len(sg_logs) = 2

\* the value v with a null, zero or negative value replaced by 1e-6
Repl(v) == IF Offending(v) THEN Floor ELSE v

\* 1 / (1 + exp(-2 (ln a - ln b))) for positive a and b
ExactAlpha(a, b) ==
    LET q == RDiv(a, b)
    IN  RDiv(RMul(q, q), RAdd(RMul(q, q), One))

\* C13 as stated: an input with a null, zero or negative OI or ridge_point
\* yields the alpha of the input with that value replaced by 1e-6.
C13_AsStated ==
    (/\ sg_pc = "done"
     /\ Offending(sg_oi) \/ Offending(sg_ridge)
     /\ InRange(Repl(sg_oi), Repl(sg_ridge)))
    => sg_result = ExactAlpha(RMax(Repl(sg_oi), Floor),
                              RMax(Repl(sg_ridge), Floor))

\* C13 amended: a zero or negative OI and a negative ridge_point are clamped
\* to 1e-6 and yield the alpha of the input with that value replaced by
\* 1e-6; a null OI, a null ridge_point and a ridge_point of exactly zero are
\* not clamped: they yield the neutral default 0.5.
C13_FloorOrDefault ==
    sg_pc = "done" =>
        IF sg_oi = Null \/ sg_ridge = Null \/ sg_ridge = Zero
        THEN sg_result = Half
        ELSE InRange(Repl(sg_oi), Repl(sg_ridge)) =>
                sg_result = ExactAlpha(RMax(Repl(sg_oi), Floor),
                                       RMax(Repl(sg_ridge), Floor))

C13_Witness ==
    /\ sg_pc = "done"
    /\ sg_oi = Zero
    /\ sg_ridge = Num(1, 500000)
    /\ sg_result = Num(1, 5)

\* the positive arguments the call of the state can be compared with
Comparable(oi, ridge_point) ==
    Positive(oi) /\ Positive(ridge_point) /\ InRange(oi, ridge_point)

\* C14 as stated: for all OI > 0 and ridge_point > 0 alpha lies strictly
\* between 0 and 1, is strictly increasing in OI and strictly decreasing in
\* ridge_point.
C14_AsStated ==
    (sg_pc = "done" /\ Positive(sg_oi) /\ Positive(sg_ridge)) =>
        /\ RLess(Zero, sg_result) /\ RLess(sg_result, One)
        /\ \A o \in SgVals :
              (Comparable(o, sg_ridge) /\ RLess(sg_oi, o)) =>
                 RLess(sg_result, calculate_alpha_sigmoid(o, sg_ridge))
        /\ \A r \in SgVals :
              (Comparable(sg_oi, r) /\ RLess(sg_ridge, r)) =>
                 RLess(calculate_alpha_sigmoid(sg_oi, r), sg_result)

\* C14 amended: for all OI > 0 and ridge_point > 0 alpha lies strictly
\* between 0 and 1, never decreases when OI grows and never increases when
\* ridge_point grows; it is strictly increasing in OI and strictly
\* decreasing in ridge_point for values at or above the floor 1e-6 (all
\* values below the floor give the alpha of the floor).
C14_MonotoneAboveFloor ==
    (sg_pc = "done" /\ Positive(sg_oi) /\ Positive(sg_ridge)) =>
        /\ RLess(Zero, sg_result) /\ RLess(sg_result, One)
        /\ \A o \in SgVals :
              (Comparable(o, sg_ridge) /\ RLess(sg_oi, o)) =>
                 LET other == calculate_alpha_sigmoid(o, sg_ridge)
                 IN  /\ RLeq(sg_result, other)
                     /\ RLeq(Floor, sg_oi) => RLess(sg_result, other)
                     /\ RLeq(o, Floor) => sg_result = other
        /\ \A r \in SgVals :
              (Comparable(sg_oi, r) /\ RLess(sg_ridge, r)) =>
                 LET other == calculate_alpha_sigmoid(sg_oi, r)
                 IN  /\ RLeq(other, sg_result)
                     /\ RLeq(Floor, sg_ridge) => RLess(other, sg_result)
                     /\ RLeq(r, Floor) => sg_result = other

C14_Witness ==
    /\ sg_pc = "done"
    /\ sg_oi = One
    /\ sg_ridge = Int2Num(2)
    /\ sg_result = Num(1, 5)

\* C15: for any positive ridge_point, alpha with OI equal to ridge_point is
\* exactly 0.5.
C15_HalfAtRidge ==
    (sg_pc = "done" /\ Positive(sg_ridge) /\ sg_oi = sg_ridge) =>
        sg_result = Half

C15_Witness ==
    /\ sg_pc = "done"
    /\ sg_oi = sg_ridge
    /\ sg_ridge = Int2Num(4)
    /\ Len(sg_logs) = 2
    /\ sg_result = Half

\* the measurement step of the state has run
Measured == tr_pc # "idle" /\ tr_pc # "measure"
\* it returned an alpha
MeasuredOk == tr_pc = "done" /\ tr_alpha.kind = "ok"
\* the node of the state has no bandwidth: no record, or no key
BandwidthMissing ==
    tr_node = EmptyFn \/ tr_node.network_bandwidth_mbps = Absent
\* the bandwidth its record holds, when it holds one
GivenBandwidth == tr_node.network_bandwidth_mbps
TotalBytes == RAdd(tr_data.input_size, tr_data.output_size)
\* bytes per second of the 100 Mbps fallback
FallbackBytesPerSec == Int2Num(12500000)

\* C16: for execution_time >= 0, input_size >= 0, output_size >= 0 and
\* network_bandwidth > 0 the alpha returned by calculate_alpha lies in
\* [0, 1].
C16_AlphaInUnitInterval ==
    (/\ Measured
     /\ RLeq(Zero, tr_data.t_exec)
     /\ RLeq(Zero, tr_data.input_size)
     /\ RLeq(Zero, tr_data.output_size)
     /\ ~BandwidthMissing
     /\ RLess(Zero, GivenBandwidth))
    => /\ MeasuredOk
       /\ RLeq(Zero, tr_alpha.alpha)
       /\ RLeq(tr_alpha.alpha, One)

C16_Witness ==
    /\ MeasuredOk
    /\ ~BandwidthMissing
    /\ GivenBandwidth = Int2Num(200)
    /\ tr_data.t_exec = Int2Num(2)
    /\ TotalBytes = Int2Num(25000000)
    /\ tr_alpha.alpha = Num(2, 3)

\* C17: for any execution time t > 0 and any bandwidth, alpha with
\* input_size = output_size = 0 is exactly 1.0.
C17_NoPayloadIsOne ==
    (/\ Measured
     /\ RLess(Zero, tr_data.t_exec)
     /\ tr_data.input_size = Zero
     /\ tr_data.output_size = Zero)
    => /\ MeasuredOk
       /\ tr_alpha.alpha = One
       /\ tr_rounded = One

C17_Witness ==
    /\ MeasuredOk
    /\ tr_data.t_exec = Half
    /\ TotalBytes = Zero
    /\ ~BandwidthMissing
    /\ GivenBandwidth = Int2Num(100)
    /\ tr_alpha.alpha = One

\* C18 as stated: alpha with execution time 0 is exactly 0.0 whenever
\* input_size + output_size > 0.
C18_AsStated ==
    (Measured /\ tr_data.t_exec = Zero /\ RLess(Zero, TotalBytes))
    => MeasuredOk /\ tr_alpha.alpha = Zero

\* C18 amended: alpha with execution time 0 is exactly 0.0 whenever
\* input_size + output_size > 0 and the bandwidth is positive; with a
\* bandwidth <= 0 the transfer time is 0 as well and alpha is the default
\* 0.5.
C18_ZeroExecWithTransfer ==
    (Measured /\ tr_data.t_exec = Zero /\ RLess(Zero, TotalBytes))
    => /\ MeasuredOk
       /\ tr_alpha.alpha =
             IF BandwidthMissing \/ RLess(Zero, GivenBandwidth)
             THEN Zero ELSE Half

C18_Witness ==
    /\ MeasuredOk
    /\ tr_data.t_exec = Zero
    /\ RLess(Zero, TotalBytes)
    /\ ~BandwidthMissing
    /\ GivenBandwidth = Int2Num(100)
    /\ tr_alpha.alpha = Zero
    /\ tr_rounded = Zero

\* the transfer time of the measurement of the state
TransferTime ==
    t_comm_ref(tr_data.input_size, tr_data.output_size,
               node_bandwidth(tr_node))

\* C19 as stated: if the node's network_bandwidth is <= 0 or missing, the
\* transfer time is 0, so alpha is 1 for every measurement with
\* execution_time > 0, whatever the payload size.
C19_AsStated ==
    (/\ Measured
     /\ BandwidthMissing \/ RLeq(GivenBandwidth, Zero)
     /\ RLess(Zero, tr_data.t_exec))
    => /\ TransferTime = Zero
       /\ MeasuredOk
       /\ tr_alpha.alpha = One

\* C19 amended: if the node's network_bandwidth is <= 0, the transfer time
\* is 0, so alpha is 1 for every measurement with execution_time > 0,
\* whatever the payload size; if it is missing (no record for the host, or
\* no network_bandwidth_mbps in it), the fallback of 100 Mbps is used, and
\* alpha is execution_time / (execution_time + bytes / 12.5e6).
C19_NoBandwidth ==
    (Measured /\ RLess(Zero, tr_data.t_exec))
    => /\ MeasuredOk
       /\ (~BandwidthMissing /\ RLeq(GivenBandwidth, Zero)) =>
             /\ TransferTime = Zero
             /\ tr_alpha.alpha = One
             /\ tr_rounded = One
       /\ BandwidthMissing =>
             tr_alpha.alpha =
                RDiv(tr_data.t_exec,
                     RAdd(tr_data.t_exec,
                          RDiv(TotalBytes, FallbackBytesPerSec)))

C19_Witness ==
    /\ MeasuredOk
    /\ ~BandwidthMissing
    /\ GivenBandwidth = Int2Num(-1)
    /\ tr_data.t_exec = Half
    /\ TotalBytes = Int2Num(25000000)
    /\ tr_alpha.alpha = One

\* C20: when execution_time and the transfer time are both 0,
\* calculate_alpha returns the neutral default 0.5, and no call divides by
\* zero.
C20_DefaultOnZeroTimes ==
    Measured =>
        /\ tr_pc # "ZeroDivisionError"
        /\ (/\ tr_data.t_exec = Zero
            /\ \/ TotalBytes = Zero
               \/ ~BandwidthMissing /\ RLeq(GivenBandwidth, Zero))
           => MeasuredOk /\ tr_alpha.alpha = Half /\ tr_rounded = Half

C20_Witness ==
    /\ MeasuredOk
    /\ tr_data.t_exec = Zero
    /\ RLess(Zero, TotalBytes)
    /\ ~BandwidthMissing
    /\ GivenBandwidth = Zero
    /\ tr_alpha.alpha = Half

(***************************************************************************)
(* C21 - C30                                                               *)
(***************************************************************************)
\* the script has stopped: normally, at a return of main(), or by an exception
RunEnded == rn_pc \in {"done", "returned_no_nodes", "ImportError"}

\* the hosts whose measurement file has an entry for the tool
HostsMeasuring(t) ==
    {h \in DOMAIN rn_exec_files : t \in DOMAIN rn_exec_files[h]}

\* C21 as stated: in a time-ratio run with node records and measurement
\* files, a tool without a measurement on any node is absent from the report
\* and noted, the run is not aborted, the report is written and every tool
\* with at least one measurement appears in it.
C21_AsStated ==
    (RunEnded /\ DOMAIN rn_node_files # {} /\ DOMAIN rn_exec_files # {}) =>
        /\ rn_pc = "done"
        /\ rn_report # NoFile
        /\ \A t \in DefinedToolNames :
              IF HostsMeasuring(t) = {}
              THEN t \notin DOMAIN rn_report.tools /\ t \in rn_notes
              ELSE t \in DOMAIN rn_report.tools

RECURSIVE SumOfValues(_)
SumOfValues(f) ==
    IF DOMAIN f = {} THEN Zero
    ELSE LET k == CHOOSE x \in DOMAIN f : TRUE
         IN  RAdd(f[k], SumOfValues([x \in DOMAIN f \ {k} |-> f[x]]))

\* t_exec / (t_exec + bytes / (bandwidth * 1e6 / 8)) for the measurement m
ExactShare(m, bandwidth_mbps) ==
    RDiv(m.t_exec,
         RAdd(m.t_exec,
              RDiv(RAdd(m.input_size, m.output_size),
                   RMul(bandwidth_mbps, Int2Num(125000)))))

\* C22 as stated: in the report of the time-ratio model a tool's alpha is
\* the arithmetic mean of per-node alphas, one for each node that has a
\* measurement for the tool and over exactly those nodes.
C22_AsStated ==
    rn_report # NoFile =>
        \A t \in DefinedToolNames :
            HostsMeasuring(t) # {} =>
                /\ t \in DOMAIN rn_report.tools
                /\ LET p == rn_report.tools[t]
                   IN  /\ Cardinality(DOMAIN p.alpha_by_node) =
                             Cardinality(HostsMeasuring(t))
                       /\ p.alpha \in
                             Round3s(RDiv(SumOfValues(p.alpha_by_node),
                                 Int2Num(Cardinality(HostsMeasuring(t)))))

\* C29 as stated: the measurement file written on host h is paired, when
\* loaded, with the node record of h, for every hostname (also one with an
\* underscore), so the alpha for that node is computed with the bandwidth of
\* the record of h and not with the 100 Mbps fallback.
C29_AsStated ==
    rn_report # NoFile =>
        \A h \in DOMAIN rn_exec_files \cap DOMAIN rn_node_files :
            /\ h \in DOMAIN rn_exec
            /\ \A t \in DOMAIN rn_exec_files[h] :
                  /\ t \in DOMAIN rn_report.tools
                  /\ h \in DOMAIN rn_report.tools[t].alpha_by_node
                  /\ rn_report.tools[t].alpha_by_node[h] \in
                        Round3s(ExactShare(rn_exec_files[h][t],
                                   IF IsNum(rn_node_files[h].network_bandwidth_mbps)
                                   THEN rn_node_files[h].network_bandwidth_mbps
                                   ELSE Int2Num(100)))
\* C23 as stated: every record a measurement runner emits has a run count of
\* at least 1, as many raw samples as its run count, whatever mix of
\* successful, failed and timed-out runs occurred, and an execution time
\* that is the mean of those samples.
C23_AsStated ==
    ms_record # Null =>
        /\ ms_record.runs >= 1
        /\ Len(ms_record.measurements) = ms_record.runs
        /\ ms_record.t_exec = RDiv(RSum(ms_record.measurements),
                                   Int2Num(Len(ms_record.measurements)))

\* every tool dict of the table has its 'server' key
ServersSet == es_TOOLS = set_server(TOOLS_dicts)

LoadPos(h) == CHOOSE i \in 1..Len(cl_order) : cl_order[i] = h

ClKey(h) == Get0(cl_files[h].peak_flops)

\* the hosts of the lowest and of the highest peak_flops
ClLowest == {h \in DOMAIN cl_files : \A g \in DOMAIN cl_files : RLeq(ClKey(h), ClKey(g))}
ClHighest == {h \in DOMAIN cl_files : \A g \in DOMAIN cl_files : RLeq(ClKey(g), ClKey(h))}

\* C25: nodes of equal peak_flops keep their load order in the
\* classification: among the nodes that tie for the lowest value the one
\* loaded first takes the low position (DEVICE), and with two or more nodes
\* the one loaded last among those that tie for the highest value takes the
\* high position (CLOUD, or EDGE when there are two nodes).
C25_TiesByLoadOrder ==
    (cl_pc = "done" /\ cl_result.kind = "ok") =>
        LET types == cl_result.node_types
            n == Len(cl_order)
            first_low == CHOOSE h \in ClLowest :
                            \A g \in ClLowest : LoadPos(h) <= LoadPos(g)
            last_high == CHOOSE h \in ClHighest :
                            \A g \in ClHighest : LoadPos(g) <= LoadPos(h)
        IN  /\ types[first_low] = "DEVICE"
            /\ \A h \in DOMAIN types \ {first_low} : types[h] # "DEVICE"
            /\ n >= 3 => /\ types[last_high] = "CLOUD"
                         /\ \A h \in DOMAIN types \ {last_high} :
                                types[h] # "CLOUD"
            /\ n = 2 => types[last_high] = "EDGE"

\* two nodes tie for the lowest value and two for the highest
C25_Witness ==
    /\ cl_pc = "done"
    /\ cl_result.kind = "ok"
    /\ Cardinality(ClLowest) >= 2
    /\ Cardinality(ClHighest) >= 2
    /\ ClLowest \cap ClHighest = {}

\* DEVICE, EDGE, CLOUD as low, mid, high
TierRank(t) == CHOOSE i \in 1..Len(Tiers) : Tiers[i] = t

\* C27: after the classification of a non-empty node set the averaged
\* peak_flops of the tiers that exist are ordered DEVICE <= EDGE <= CLOUD,
\* and no node of a lower tier has a higher peak_flops than a node of a
\* higher tier.
C27_TiersOrderedByRate ==
    (cl_pc = "done" /\ cl_result.kind = "ok") =>
        LET types == cl_result.node_types
            specs == cl_result.averaged_specs
        IN  /\ \A s, t \in DOMAIN specs :
                  TierRank(s) < TierRank(t) =>
                      RLeq(specs[s].peak_flops, specs[t].peak_flops)
            /\ \A g, h \in DOMAIN types :
                  TierRank(types[g]) < TierRank(types[h]) =>
                      RLeq(ClKey(g), ClKey(h))

\* three tiers, the middle one of two nodes of different peak_flops
C27_Witness ==
    /\ cl_pc = "done"
    /\ cl_result.kind = "ok"
    /\ DOMAIN cl_result.averaged_specs = TierSet
    /\ \E g, h \in DOMAIN cl_files :
          /\ cl_result.node_types[g] = "EDGE"
          /\ cl_result.node_types[h] = "EDGE"
          /\ RLess(ClKey(g), ClKey(h))

\* peak_flops / memory_bw of a node record where both are non-zero numbers,
\* else what the classifier takes for a record without a ridge point
RidgeOfFields(rec) ==
    IF Truthy(rec.peak_flops) /\ Truthy(rec.memory_bw)
    THEN RDiv(rec.peak_flops, rec.memory_bw)
    ELSE Zero

\* the averaged ridge points of a classification agree with the rate and
\* bandwidth of the nodes of each tier
AveragesAgree ==
    nf_loaded # Null /\ nf_loaded.kind = "ok" =>
        \A t \in DOMAIN nf_loaded.averaged_specs :
            LET hs == SetToSeq({h \in DOMAIN nf_files :
                                   nf_loaded.node_types[h] = t})
            IN  nf_loaded.averaged_specs[t].ridge_point =
                    RDiv(RSum([i \in 1..Len(hs) |->
                                  RidgeOfFields(nf_files[hs[i]])]),
                         Int2Num(Len(hs)))

\* C26 as stated: the ridge_point of a node record is peak_flops / memory_bw
\* when both are present and null (or not there) otherwise, and the value
\* the classifier averages agrees with the two fields.
C26_AsStated ==
    /\ \A h \in DOMAIN nf_files :
          LET rec == nf_files[h]
          IN  IF IsNum(rec.peak_flops) /\ IsNum(rec.memory_bw)
              THEN rec.memory_bw # Zero =>
                      rec.ridge_point = RDiv(rec.peak_flops, rec.memory_bw)
              ELSE rec.ridge_point \in {Null, Absent}
    /\ AveragesAgree

\* C26, amended: the ridge_point of a node record written by
\* 1_benchmark_node.py is peak_flops / memory_bw when both were measured and
\* are not zero, and null otherwise; 0_benchmark_cpu.py leaves it as it is;
\* the classifier averages the stored value (0 for a record without the key),
\* which agrees with the two fields of the record.
C26_StoredRidge ==
    /\ \A h \in DOMAIN nf_files :
          LET rec == nf_files[h]
          IN  IF rec.peak_flops = Absent
              THEN rec.memory_bw = Absent /\ rec.ridge_point = Absent
              ELSE rec.ridge_point =
                      IF Truthy(rec.peak_flops) /\ Truthy(rec.memory_bw)
                      THEN RDiv(rec.peak_flops, rec.memory_bw)
                      ELSE Null
    /\ AveragesAgree

\* two nodes classified, one benchmarked by both programs, with a ridge point
C26_Witness ==
    /\ nf_loaded # Null
    /\ nf_loaded.kind = "ok"
    /\ DOMAIN nf_files = NfHosts
    /\ \E h \in NfHosts :
          /\ IsNum(nf_files[h].ridge_point)
          /\ nf_files[h].peak_gflops # Absent

\* the keys of a node file 0_benchmark_cpu.py does not produce
KeptKeys == {"hostname", "os", "machine", "peak_flops", "memory_bw",
             "ridge_point", "network_bandwidth_mbps", "storage"}

\* C30: a run of 0_benchmark_cpu.py on a host whose node file exists keeps
\* the value of every key of the file it does not itself produce, keeps
\* peak_gflops when the GFLOPS measurement failed and both
\* memory_bandwidth keys when the memory measurement failed, and leaves the
\* files of the other hosts alone.
C30_CpuBenchmarkAddsToFile ==
    [][nf_last'.op = "cpu" =>
          LET h == nf_last'.hostname
          IN  /\ h \in DOMAIN nf_files =>
                    /\ \A k \in KeptKeys : nf_files'[h][k] = nf_files[h][k]
                    /\ nf_last'.cpu = Null =>
                          nf_files'[h].peak_gflops = nf_files[h].peak_gflops
                    /\ nf_last'.memory = Null =>
                          /\ nf_files'[h].memory_bandwidth_mibps =
                                nf_files[h].memory_bandwidth_mibps
                          /\ nf_files'[h].memory_bandwidth_gibps =
                                nf_files[h].memory_bandwidth_gibps
              /\ \A g \in DOMAIN nf_files \ {h} :
                    g \in DOMAIN nf_files' /\ nf_files'[g] = nf_files[g]]_vars

\* 0_benchmark_cpu.py has run with both measurements failed on a host whose
\* file held the results of both programs
C30_Witness ==
    /\ nf_last.op = "cpu"
    /\ nf_last.cpu = Null
    /\ nf_last.memory = Null
    /\ IsNum(nf_files[nf_last.hostname].ridge_point)
    /\ IsNum(nf_files[nf_last.hostname].peak_gflops)
    /\ IsNum(nf_files[nf_last.hostname].memory_bandwidth_gibps)

\* C28: once start_wasmtime_server has returned a running process,
\* measure_server_tools does not return (nor pass an exception on) before
\* stop_wasmtime_server was called, and by then the server process has
\* exited: by itself, on the terminate, or on the kill after the wait timed
\* out.
C28_ServerStopped ==
    (hs_started /\ hs_pc \in {"returned", "raised"}) =>
        /\ hs_stop_called
        /\ hs_process = "exited"
        /\ hs_how \in {"already_exited", "terminated", "killed"}

\* the loop ended without a record for any tool and the server had to be killed
C28_Witness ==
    /\ hs_pc = "returned"
    /\ hs_started
    /\ hs_path = "completed"
    /\ hs_results = 0
    /\ hs_how = "killed"

====
